---- MODULE Spec2Model ----
(***************************************************************************)
(* A model of the tweet extractor (social_media_extractor.py) and of the   *)
(* thread extractor (thread_extractor.py).                                 *)
(*                                                                         *)
(* Every network call of the twscrape client is a suspension point: an     *)
(* action of the model runs the code from one suspension point to the      *)
(* next.  What the client answers is chosen by the environment, from the   *)
(* fixture sets below.                                                     *)
(***************************************************************************)
EXTENDS Integers, Sequences, FiniteSets, TLC

VARIABLES
    available,    \* TWSCRAPE_AVAILABLE: whether the import of twscrape succeeded
    pc,           \* where the running call is suspended ("idle": no call)
    url,          \* extract_twitter_content: argument url
    fetches,      \* history: the client calls issued by the running call, in order
    tweet_id,     \* extract_twitter_content: the identifier parsed from the URL
    tweet_data,   \* extract_twitter_content: local tweet_data
    method_used,  \* extract_twitter_content: local method_used
    diagnosis,    \* _diagnose_tweet_accessibility: the dict under construction
    result,       \* the value the finished call returned
    max_depth,    \* get_complete_thread: argument max_depth
    thread,       \* get_complete_thread: the dict thread
    stack,        \* get_complete_thread: suspended _get_replies_recursive frames
    prev,         \* history: the url, the fetches and the result of an earlier call
    other,        \* the locals of a second get_complete_thread coroutine, suspended
    main_tweet,   \* extract_tweet_with_replies: local main_tweet
    stream_replies  \* extract_tweet_with_replies: local replies, the list collected

vars == <<available, pc, url, fetches, tweet_id, tweet_data, method_used, diagnosis, result,
          max_depth, thread, stack, prev, other, main_tweet, stream_replies>>

(***************************************************************************)
(* Python values.  Every value is a record tagged by its type, so that     *)
(* values of different types can be told apart.  A string is the sequence  *)
(* of its whitespace-separated words.                                      *)
(***************************************************************************)
NoneV == [t |-> "None"]
PyStr(ws) == [t |-> "str", s |-> ws]
PyInt(n) == [t |-> "int", n |-> n]
PyBool(b) == [t |-> "bool", b |-> b]
Dict(d) == [t |-> "dict", d |-> d]
List(l) == [t |-> "list", l |-> l]
Obj(a) == [t |-> "obj", a |-> a]
Date(iso) == [t |-> "datetime", iso |-> iso]
EmptyDict == Dict([k \in {} |-> NoneV])
EmptyList == List(<<>>)
EmptyStr == PyStr(<<>>)

\* bool(v): Python truth of a value
Truthy(v) ==
    CASE v.t = "None" -> FALSE
      [] v.t = "str" -> v.s # <<>>
      [] v.t = "int" -> v.n # 0
      [] v.t = "bool" -> v.b
      [] v.t = "dict" -> DOMAIN v.d # {}
      [] v.t = "list" -> v.l # <<>>
      [] OTHER -> TRUE

\* hasattr(v, k): only objects of the fixtures carry attributes
HasAttr(v, k) == v.t = "obj" /\ k \in DOMAIN v.a

\* getattr(v, k, default)
GetAttr(v, k, default) == IF HasAttr(v, k) THEN v.a[k] ELSE default

\* d.get(k, default) of a dict d
Get(v, k, default) == IF k \in DOMAIN v.d THEN v.d[k] ELSE default

\* k in d
HasKey(v, k) == k \in DOMAIN v.d

\* whether needle occurs in hay as a run of consecutive words
Contains(hay, needle) ==
    \E i \in 0..(Len(hay) - Len(needle)) :
        \A j \in 1..Len(needle) : hay[i + j] = needle[j]

(***************************************************************************)
(* Fixtures: what the callers pass and what the client can answer.         *)
(***************************************************************************)
\* URLs: the host and the path segments
Urls ==
    { [netloc |-> "x.com", segs |-> <<"alice", "status", "111">>],
      [netloc |-> "www.twitter.com", segs |-> <<"i", "status", "222">>],
      [netloc |-> "example.com", segs |-> <<"alice", "status", "111">>],
      [netloc |-> "X.com", segs |-> <<"alice", "status", "111">>],
      [netloc |-> "x.com", segs |-> <<"alice">>],
      [netloc |-> "x.com", segs |-> <<"alice", "status", "">>] }

\* the path segments that consist of digits
DigitSegs == {"111", "222"}

\* exception messages of the client
ExcMsgs == { <<"timeout">>, <<"Rate", "limit", "exceeded">> }

UserAlice == Obj([username |-> PyStr(<<"alice">>), id |-> PyInt(7)])

\* a complete Tweet object
TweetFull ==
    Obj([id |-> PyInt(111), rawContent |-> PyStr(<<"hello", "world">>),
         user |-> UserAlice, date |-> Date("2025-07-12"),
         likeCount |-> PyInt(5), retweetCount |-> PyInt(2),
         replyCount |-> PyInt(1), quoteCount |-> PyInt(3),
         inReplyToTweetId |-> NoneV])

\* an object with the identifier of another post, no user and no metrics
TweetBare ==
    Obj([id |-> PyInt(222), rawContent |-> EmptyStr, date |-> NoneV])

\* an object whose text is None
TweetNoText ==
    Obj([id |-> PyInt(111), rawContent |-> NoneV, user |-> NoneV,
         date |-> NoneV, likeCount |-> PyInt(0), retweetCount |-> PyInt(0),
         replyCount |-> PyInt(0), quoteCount |-> PyInt(0)])

Tweets == {TweetFull, TweetBare, TweetNoText}

\* what api.tweet_details(id) can do: return a Tweet, return None, raise
DetailsOutcomes ==
    [kind : {"value"}, v : Tweets]
    \cup {[kind |-> "value", v |-> NoneV]}
    \cup [kind : {"raise"}, msg : ExcMsgs]

\* what iterating api.search(q, limit=1) can do up to its first item:
\* yield a Tweet, end without an item, raise
SearchOutcomes ==
    [kind : {"yield"}, v : Tweets]
    \cup {[kind |-> "empty"]}
    \cup [kind : {"raise"}, msg : ExcMsgs]

\* one entry of a TimelineAddEntries instruction holding a post
EntryTweet ==
    Dict([entryId |-> PyStr(<<"tweet-111">>),
          content |-> Dict([entryType |-> PyStr(<<"Tweet">>),
            itemContent |-> Dict([tweet_results |-> Dict([result |-> Dict([
              legacy |-> Dict([full_text |-> PyStr(<<"hello", "world">>),
                               created_at |-> PyStr(<<"2025-07-12">>),
                               favorite_count |-> PyInt(5),
                               retweet_count |-> PyInt(2),
                               reply_count |-> PyInt(1),
                               quote_count |-> PyInt(3)]),
              core |-> Dict([user_results |-> Dict([result |-> Dict([
                legacy |-> Dict([screen_name |-> PyStr(<<"alice">>)])])])])
            ])])])])])

\* an entry that holds no post
EntryCursor ==
    Dict([entryId |-> PyStr(<<"cursor-bottom">>),
          content |-> Dict([entryType |-> PyStr(<<"TimelineTimelineCursor">>)])])

RawBody(instructions) ==
    Dict([data |-> Dict([tweet_detail |-> Dict([instructions |-> List(instructions)])])])

AddEntries(entries) ==
    Dict([type |-> PyStr(<<"TimelineAddEntries">>), entries |-> List(entries)])

RawWellFormed == RawBody(<<AddEntries(<<EntryTweet>>)>>)
RawCursorFirst ==
    RawBody(<<Dict([type |-> PyStr(<<"TimelineClearCache">>)]),
              AddEntries(<<EntryCursor, EntryTweet>>)>>)
RawEmptyInstructions == RawBody(<<>>)
RawNoPost == RawBody(<<AddEntries(<<EntryCursor>>)>>)
RawNoInstructions == Dict([data |-> Dict([tweet_detail |-> EmptyDict])])
RawNoData == Dict([errors |-> List(<<PyStr(<<"Not", "found">>)>>)])

\* what response.json() can give: a dict, or a failure to decode
RawBodies ==
    { RawWellFormed, RawCursorFirst, RawEmptyInstructions, RawNoPost,
      RawNoInstructions, RawNoData, EmptyDict }

HttpOk == 200

\* what api.tweet_details_raw(id) can do: return a response (whose json()
\* decodes to a body or raises), return None, raise
RawOutcomes ==
    [kind : {"response"}, status_code : {HttpOk}, body : RawBodies, json_ok : {TRUE}]
    \cup {[kind |-> "response", status_code |-> HttpOk, body |-> EmptyDict, json_ok |-> FALSE],
          [kind |-> "response", status_code |-> 404, body |-> RawNoData, json_ok |-> TRUE],
          [kind |-> "none"]}
    \cup [kind : {"raise"}, msg : ExcMsgs]

\* what api.tweet_details_raw(id) can do when the diagnosis calls it: the
\* same, and exceptions whose messages name a deletion or a private account
ProbeRawOutcomes ==
    RawOutcomes
    \cup [kind : {"raise"}, msg : { <<"Tweet", "Deleted">>, <<"Account", "is", "Private">> }]

\* replies: a complete one, one without user and date
ReplyA ==
    Obj([id |-> PyInt(201), rawContent |-> PyStr(<<"first">>),
         user |-> UserAlice, date |-> Date("2025-07-13"),
         likeCount |-> PyInt(1), retweetCount |-> PyInt(0),
         replyCount |-> PyInt(4), quoteCount |-> PyInt(0),
         inReplyToTweetId |-> PyInt(111)])

ReplyB ==
    Obj([id |-> PyInt(202), rawContent |-> PyStr(<<"second", "reply">>),
         user |-> NoneV, date |-> NoneV,
         likeCount |-> PyInt(0), retweetCount |-> PyInt(6),
         replyCount |-> PyInt(0), quoteCount |-> PyInt(2),
         inReplyToTweetId |-> PyInt(111)])

\* the lists api.tweet_replies can return: in upstream order; TweetFull
\* carries the identifier of the root (a cycle), TweetBare lacks attributes
ReplyLists ==
    { <<>>, <<ReplyA>>, <<ReplyA, ReplyB>>, <<TweetFull, ReplyA>>, <<ReplyA, TweetBare>> }

\* what api.tweet_replies(id, limit=20) can do: return a list, raise
RepliesOutcomes ==
    [kind : {"value"}, v : {List(l) : l \in ReplyLists}]
    \cup [kind : {"raise"}, msg : ExcMsgs]

\* the largest max_depth the callers pass
MaxDepth == 2

(***************************************************************************)
(* Pure functions of social_media_extractor.py                             *)
(***************************************************************************)
\* str.lower() of one word
LowerWord(w) ==
    CASE w = "X.com" -> "x.com"
      [] w = "Rate" -> "rate"
      [] w = "Tweet" -> "tweet"
      [] w = "Deleted" -> "deleted"
      [] w = "Private" -> "private"
      [] w = "Account" -> "account"
      [] w = "Response" -> "response"
      [] w = "Raw" -> "raw"
      [] w = "None" -> "none"
      [] OTHER -> w

Lower(ws) == [i \in 1..Len(ws) |-> LowerWord(ws[i])]

\* str(v), as words
StrOf(v) ==
    CASE v.t = "str" -> v.s
      [] v.t = "None" -> <<"None">>
      [] v.t = "int" -> <<ToString(v.n)>>
      [] v.t = "datetime" -> <<v.iso>>
      [] OTHER -> <<"<object>">>

is_twitter_url(u) ==
    LowerWord(u.netloc) \in {"twitter.com", "x.com", "www.twitter.com", "www.x.com"}

\* re.search of the four patterns: the host text twitter.com/ or x.com/
\* (case-sensitive), one word, "status", digits
extract_twitter_id_from_url(u) ==
    IF ~is_twitter_url(u) THEN NoneV
    ELSE IF /\ u.netloc \in {"twitter.com", "x.com", "www.twitter.com", "www.x.com"}
            /\ Len(u.segs) >= 3
            /\ u.segs[2] = "status"
            /\ u.segs[3] \in DigitSegs
         THEN PyStr(<<u.segs[3]>>)
         ELSE NoneV

Unknown == PyStr(<<"Unknown">>)

\* the author, were there no default for an object without a user
AuthorOfNoDefault(tweet) ==
    LET user == GetAttr(tweet, "user", NoneV) IN
    IF HasAttr(user, "username") THEN user.a.username
    ELSE IF HasAttr(user, "screen_name") THEN user.a.screen_name
    ELSE IF user.t = "dict" THEN Get(user, "username", Unknown)
    ELSE PyStr(StrOf(user))

\* the author _extract_from_tweet_object finds
AuthorOf(tweet) ==
    IF ~HasAttr(tweet, "user") THEN Unknown
    ELSE LET user == tweet.a.user IN
         IF HasAttr(user, "username") THEN user.a.username
         ELSE IF HasAttr(user, "screen_name") THEN user.a.screen_name
         ELSE IF user.t = "dict" THEN Get(user, "username", Unknown)
         ELSE PyStr(StrOf(user))

\* the f-string of the formatted post
FormatPost(author, tid, fields) ==
    PyStr(<<"Twitter/X", "Post", "by", "@">> \o StrOf(author)
          \o <<"Tweet", "ID:">> \o StrOf(tid)
          \o fields)

_extract_from_tweet_object(tweet, tid) ==
    LET content == IF HasAttr(tweet, "rawContent") THEN tweet.a.rawContent
                   ELSE PyStr(StrOf(tweet))
        author == AuthorOf(tweet)
        metadata == [tweet_id |-> tid,
                     author |-> author,
                     date |-> GetAttr(tweet, "date", NoneV),
                     likes |-> GetAttr(tweet, "likeCount", PyInt(0)),
                     retweets |-> GetAttr(tweet, "retweetCount", PyInt(0)),
                     replies |-> GetAttr(tweet, "replyCount", PyInt(0)),
                     quotes |-> GetAttr(tweet, "quoteCount", PyInt(0))]
    IN  IF content.t # "str" THEN NoneV   \* content[:100] or content.split() raises
        ELSE Dict([success |-> PyBool(TRUE),
                   title |-> PyStr(<<"Twitter/X", "Post", "by", "@">> \o StrOf(author)),
                   extracted_content |->
                       FormatPost(author, tid,
                           <<"Posted:">> \o StrOf(metadata.date)
                           \o <<"Content:">> \o content.s
                           \o <<"Likes:">> \o StrOf(metadata.likes)
                           \o <<"Retweets:">> \o StrOf(metadata.retweets)
                           \o <<"Replies:">> \o StrOf(metadata.replies)
                           \o <<"Quotes:">> \o StrOf(metadata.quotes)),
                   word_count |-> PyInt(Len(content.s)),
                   metadata |-> Dict(metadata)])

Raised == [t |-> "raise"]
NoMatch == [t |-> "nomatch"]

\* the body of the loop over entries, for one entry
ParseEntry(entry, tid) ==
    IF entry.t # "dict" THEN Raised ELSE
    LET content == Get(entry, "content", EmptyDict) IN
    IF content.t # "dict" THEN Raised ELSE
    IF Get(content, "entryType", PyStr(<<"unknown">>)) # PyStr(<<"Tweet">>) THEN NoMatch ELSE
    LET itemContent == Get(content, "itemContent", EmptyDict) IN
    IF itemContent.t # "dict" THEN Raised ELSE
    LET tweet_results == Get(itemContent, "tweet_results", EmptyDict) IN
    IF tweet_results.t # "dict" THEN Raised ELSE
    LET tweet_content == Get(tweet_results, "result", EmptyDict) IN
    IF tweet_content.t # "dict" THEN Raised ELSE
    IF ~Truthy(tweet_content) THEN NoMatch ELSE
    LET legacy == Get(tweet_content, "legacy", EmptyDict) IN
    IF legacy.t # "dict" THEN Raised ELSE
    LET tweet_text == Get(legacy, "full_text", EmptyStr) IN
    IF tweet_text.t # "str" THEN Raised ELSE
    LET core == Get(tweet_content, "core", EmptyDict) IN
    IF core.t # "dict" THEN Raised ELSE
    LET user_results == Get(core, "user_results", EmptyDict) IN
    IF user_results.t # "dict" THEN Raised ELSE
    LET user_result == Get(user_results, "result", EmptyDict) IN
    IF user_result.t # "dict" THEN Raised ELSE
    LET user_legacy == Get(user_result, "legacy", EmptyDict) IN
    IF user_legacy.t # "dict" THEN Raised ELSE
    LET author == Get(user_legacy, "screen_name", Unknown)
        likes == Get(legacy, "favorite_count", PyInt(0))
        retweets == Get(legacy, "retweet_count", PyInt(0))
        replies == Get(legacy, "reply_count", PyInt(0))
        quotes == Get(legacy, "quote_count", PyInt(0))
    IN  Dict([success |-> PyBool(TRUE),
              title |-> PyStr(<<"Twitter/X", "Post", "by", "@">> \o StrOf(author)),
              extracted_content |->
                  FormatPost(author, tid,
                      <<"Content:">> \o tweet_text.s
                      \o <<"Likes:">> \o StrOf(likes)
                      \o <<"Retweets:">> \o StrOf(retweets)
                      \o <<"Replies:">> \o StrOf(replies)
                      \o <<"Quotes:">> \o StrOf(quotes)),
              word_count |-> PyInt(Len(tweet_text.s)),
              metadata |-> Dict([tweet_id |-> tid, author |-> author,
                                 likes |-> likes, retweets |-> retweets,
                                 replies |-> replies, quotes |-> quotes])])

\* the loop over entries, were the last matching entry to win
RECURSIVE ScanEntriesLastWins(_, _, _)
ScanEntriesLastWins(entries, j, tid) ==
    IF j > Len(entries) THEN NoMatch
    ELSE LET later == ScanEntriesLastWins(entries, j + 1, tid)
         IN  IF later # NoMatch THEN later ELSE ParseEntry(entries[j], tid)

\* the loop over the entries of one instruction, from entry j on
RECURSIVE ScanEntries(_, _, _)
ScanEntries(entries, j, tid) ==
    IF j > Len(entries) THEN NoMatch
    ELSE LET r == ParseEntry(entries[j], tid)
         IN  IF r = NoMatch THEN ScanEntries(entries, j + 1, tid) ELSE r

\* the loop over the instructions, from instruction i on
RECURSIVE ScanInstructions(_, _, _)
ScanInstructions(instructions, i, tid) ==
    IF i > Len(instructions) THEN NoMatch
    ELSE LET instruction == instructions[i] IN
         IF instruction.t # "dict" THEN Raised
         ELSE IF Get(instruction, "type", PyStr(<<"unknown">>)) # PyStr(<<"TimelineAddEntries">>)
              THEN ScanInstructions(instructions, i + 1, tid)
         ELSE LET entries == Get(instruction, "entries", EmptyList) IN
              IF entries.t # "list" THEN Raised
              ELSE LET r == ScanEntries(entries.l, 1, tid)
                   IN  IF r = NoMatch THEN ScanInstructions(instructions, i + 1, tid)
                       ELSE r

_extract_from_raw_response(raw_data, tid) ==
    IF raw_data.t # "dict" THEN NoneV ELSE
    LET data == Get(raw_data, "data", EmptyDict) IN
    IF data.t # "dict" THEN NoneV ELSE
    LET tweet_detail == Get(data, "tweet_detail", EmptyDict) IN
    IF tweet_detail.t # "dict" THEN NoneV ELSE
    LET instructions == Get(tweet_detail, "instructions", EmptyList) IN
    IF instructions.t # "list" THEN NoneV ELSE
    LET r == ScanInstructions(instructions.l, 1, tid)
    IN  IF r \in {Raised, NoMatch} THEN NoneV ELSE r

(***************************************************************************)
(* The history of client calls.  A call is logged when it is issued and    *)
(* its outcome is filled in when the client answers.                       *)
(***************************************************************************)
Pending == [kind |-> "pending"]

Issue(log, api, phase, arg) ==
    Append(log, [api |-> api, phase |-> phase, arg |-> arg, outcome |-> Pending])

Answer(log, o) == [log EXCEPT ![Len(log)].outcome = o]

(***************************************************************************)
(* extract_twitter_content                                                 *)
(***************************************************************************)
W(ws) == PyStr(ws)

Failure(error, content) ==
    Dict([success |-> PyBool(FALSE),
          error |-> W(error),
          title |-> W(<<"Twitter/X", "Post">>),
          extracted_content |-> W(<<"Failed", "to", "extract:">> \o content)])

\* the result of lines 432-444
NotFoundFailure(tid, diag) ==
    Dict([success |-> PyBool(FALSE),
          error |-> W(<<"Could", "not", "find", "tweet", "with", "ID:">> \o StrOf(tid)),
          title |-> W(<<"Twitter/X", "Post">>),
          extracted_content |->
              W(<<"Failed", "to", "extract:", "Tweet", "not", "found", "or", "inaccessible">>),
          diagnosis |-> diag,
          suggestions |-> Get(diag, "suggestions", EmptyList)])

\* mutant: the success branch loses the tweet
TryTweetDetailsDropsTweet(o) == NoneV

\* what _try_tweet_details returns for an outcome of api.tweet_details
_try_tweet_details(o) ==
    IF o.kind = "value" /\ Truthy(o.v) THEN o.v ELSE NoneV

\* what _try_search_method returns for an outcome of api.search
_try_search_method(o) ==
    IF o.kind = "yield" THEN o.v ELSE NoneV

\* what _try_raw_request returns for an outcome of api.tweet_details_raw
_try_raw_request(o) ==
    IF o.kind = "response" /\ o.status_code = HttpOk
    THEN IF o.json_ok THEN o.body ELSE NoneV
    ELSE NoneV

\* mutant: lines 456-463 missing: whatever the parser returned is returned
ExtractContentUnchecked(data, method, tid) ==
    IF method = "raw_graphql"
    THEN _extract_from_raw_response(data, tid)
    ELSE _extract_from_tweet_object(data, tid)

\* lines 446-465, were the identifier of a Tweet object taken from the
\* object and not from the URL
ExtractContentPayloadId(data, method, tid) ==
    LET own == IF HasAttr(data, "id") THEN PyStr(StrOf(data.a.id)) ELSE tid
        content == IF method = "raw_graphql"
                   THEN _extract_from_raw_response(data, tid)
                   ELSE _extract_from_tweet_object(data, own)
    IN  IF ~Truthy(content)
        THEN Failure(<<"Could", "not", "extract", "content", "from", "tweet", "data">>,
                     <<"Content", "extraction", "failed">>)
        ELSE content

\* lines 446-465: the parser paired with the method, and the result
ExtractContent(data, method, tid) ==
    LET content == IF method = "raw_graphql"
                   THEN _extract_from_raw_response(data, tid)
                   ELSE _extract_from_tweet_object(data, tid)
    IN  IF ~Truthy(content)
        THEN Failure(<<"Could", "not", "extract", "content", "from", "tweet", "data">>,
                     <<"Content", "extraction", "failed">>)
        ELSE content

\* mutant: the diagnosis dict is created once and shared by the calls: a
\* later call appends to the reasons and suggestions of the earlier one
NewDiagnosisShared(tid) ==
    IF prev # NoneV /\ "diagnosis" \in DOMAIN prev.result.d
    THEN prev.result.d.diagnosis
    ELSE Dict([tweet_id |-> tid, accessible |-> PyBool(FALSE),
               reasons |-> EmptyList, suggestions |-> EmptyList])

NewDiagnosis(tid) ==
    Dict([tweet_id |-> tid, accessible |-> PyBool(FALSE),
          reasons |-> EmptyList, suggestions |-> EmptyList])

AddReason(diag, ws) ==
    Dict([diag.d EXCEPT !.reasons = List(Append(@.l, W(ws)))])

AddSuggestion(diag, ws) ==
    Dict([diag.d EXCEPT !.suggestions = List(Append(@.l, W(ws)))])

SetAccessible(diag) == Dict([diag.d EXCEPT !.accessible = PyBool(TRUE)])

\* lines 174-190: the reason Test 3 records for a response
RawResponseProbe(diag, o) ==
    IF o.status_code # HttpOk
    THEN AddReason(diag, <<"Raw", "request", "failed", "with", "status",
                           ToString(o.status_code)>>)
    ELSE IF ~o.json_ok
         THEN AddReason(diag, <<"Raw", "request", "failed:", "Expecting", "value">>)
    ELSE LET data == o.body IN
         IF ~(HasKey(data, "data") /\ HasKey(data.d.data, "tweet_detail"))
         THEN AddReason(diag, <<"Response", "missing", "tweet", "detail", "data">>)
         ELSE LET tweet_detail == data.d.data.d.tweet_detail IN
              IF ~HasKey(tweet_detail, "instructions")
              THEN AddReason(diag, <<"Tweet", "detail", "missing", "instructions">>)
              ELSE IF Len(tweet_detail.d.instructions.l) = 0
                   THEN AddSuggestion(
                            AddReason(diag, <<"Tweet", "detail", "has", "no", "instructions",
                                              "-", "likely", "deleted", "or", "private">>),
                            <<"This", "tweet", "may", "have", "been", "deleted", "or", "is",
                              "from", "a", "private", "account">>)
                   ELSE AddReason(diag, <<"Raw", "request", "succeeded", "but", "tweet",
                                          "not", "parseable">>)

\* mutant: Test 3 without the else branch of lines 191-192: a raw request
\* that returns None leaves no reason
RawProbeNoneSilent(diag, o) ==
    IF o.kind = "raise" THEN AddReason(diag, <<"Raw", "request", "failed:">> \o o.msg)
    ELSE IF o.kind = "none" THEN diag
    ELSE RawResponseProbe(diag, o)

\* Test 3 of _diagnose_tweet_accessibility (lines 171-194): the diagnosis
\* after the outcome o of api.tweet_details_raw
RawProbe(diag, o) ==
    IF o.kind = "raise" THEN AddReason(diag, <<"Raw", "request", "failed:">> \o o.msg)
    ELSE IF o.kind = "none" THEN AddReason(diag, <<"Raw", "request", "returned", "None">>)
    ELSE RawResponseProbe(diag, o)

\* mutant: the reasons are searched as they are, without lower()
InReasonsCaseSensitive(diag, needle) ==
    \E i \in 1..Len(diag.d.reasons.l) : Contains(diag.d.reasons.l[i].s, needle)

\* needle in str(reasons).lower()
InReasons(diag, needle) ==
    \E i \in 1..Len(diag.d.reasons.l) : Contains(Lower(diag.d.reasons.l[i].s), needle)

SuggestDeleted(diag) ==
    IF InReasons(diag, <<"deleted">>)
    THEN AddSuggestion(diag, <<"Tweet", "may", "have", "been", "deleted", "by", "the", "author">>)
    ELSE diag

SuggestPrivate(diag) ==
    IF InReasons(diag, <<"private">>)
    THEN AddSuggestion(diag, <<"Tweet", "may", "be", "from", "a", "private", "account">>)
    ELSE diag

SuggestRateLimit(diag) ==
    IF InReasons(diag, <<"rate", "limit">>)
    THEN AddSuggestion(diag, <<"Rate", "limit", "reached", "-", "try", "again", "later">>)
    ELSE diag

\* lines 196-205
CommonSuggestions(diag) ==
    AddSuggestion(
        AddSuggestion(SuggestRateLimit(SuggestPrivate(SuggestDeleted(diag))),
            <<"Try", "testing", "with", "a", "different", "tweet", "ID", "to", "verify",
              "the", "system", "works">>),
        <<"Check", "if", "the", "tweet", "URL", "is", "still", "accessible", "in", "a",
          "browser">>)

(***************************************************************************)
(* The state machine                                                       *)
(***************************************************************************)
NoThread == [t |-> "None"]

\* the locals of the coroutine who, before it is started
NotStarted(who) ==
    [who |-> who, pc |-> "idle", tweet_id |-> NoneV, max_depth |-> 0, thread |-> NoThread,
     stack |-> <<>>, fetches |-> <<>>, result |-> NoneV]

Init ==
    /\ available \in BOOLEAN
    /\ pc = "idle"
    /\ url = NoneV
    /\ fetches = <<>>
    /\ tweet_id = NoneV
    /\ tweet_data = NoneV
    /\ method_used = NoneV
    /\ diagnosis = NoneV
    /\ result = NoneV
    /\ max_depth = 0
    /\ thread = NoThread
    /\ stack = <<>>
    /\ prev = NoneV
    /\ other = NotStarted(2)
    /\ main_tweet = NoneV
    /\ stream_replies = <<>>

threadVars == <<max_depth, thread, stack>>

\* the call has returned r
Finish(r) ==
    /\ pc' = "done"
    /\ result' = r

\* mutant: lines 393-400 missing: the fetches start whatever was parsed
ParseAndStartNoGuard(u) ==
    LET tid == extract_twitter_id_from_url(u) IN
    /\ tweet_id' = tid
    /\ pc' = "tweet_details"
    /\ fetches' = Issue(fetches, "tweet_details", "chain", tid)
    /\ UNCHANGED result

\* lines 390-410: parse the identifier, then issue the first fetch
ParseAndStart(u) ==
    LET tid == extract_twitter_id_from_url(u) IN
    IF ~Truthy(tid)
    THEN /\ Finish(Failure(<<"Could", "not", "extract", "tweet", "ID", "from", "URL">>,
                           <<"Invalid", "Twitter/X", "URL", "format">>))
         /\ UNCHANGED <<fetches, tweet_id>>
    ELSE /\ tweet_id' = tid
         /\ pc' = "tweet_details"
         /\ fetches' = Issue(fetches, "tweet_details", "chain", tid)
         /\ UNCHANGED result

\* extract_twitter_content(url, bypass_rate_limit) is called (lines 372-388)
ExtractCall(u, bypass_rate_limit) ==
    /\ pc = "idle"
    /\ url' = u
    /\ IF ~available
       THEN /\ Finish(Failure(<<"twscrape", "not", "available">>,
                              <<"twscrape", "not", "available">>))
            /\ UNCHANGED <<fetches, tweet_id>>
       ELSE IF ~bypass_rate_limit
       THEN /\ pc' = "check_accounts"
            /\ UNCHANGED <<fetches, tweet_id, result>>
       ELSE ParseAndStart(u)
    /\ UNCHANGED <<available, prev, other, main_tweet, stream_replies, tweet_data, method_used, diagnosis, threadVars>>

\* _check_accounts returns; it swallows every exception of the pool
CheckAccountsDone ==
    /\ pc = "check_accounts"
    /\ ParseAndStart(url)
    /\ UNCHANGED <<available, prev, other, main_tweet, stream_replies, url, tweet_data, method_used, diagnosis, threadVars>>

\* mutant: lines 412, 418, 424 missing: the winning method is not recorded
WonUnrecorded(data, method, o) ==
    /\ tweet_data' = data
    /\ fetches' = Answer(fetches, o)
    /\ Finish(ExtractContent(data, method, tweet_id))
    /\ UNCHANGED <<method_used, diagnosis>>

\* a fetch of the chain gave data: lines 446-465
Won(data, method, o) ==
    /\ tweet_data' = data
    /\ method_used' = W(<<method>>)
    /\ fetches' = Answer(fetches, o)
    /\ Finish(ExtractContent(data, method, tweet_id))
    /\ UNCHANGED diagnosis

\* mutant: _try_tweet_details tries once more when its fetch raised
TweetDetailsReturnRetries(o) ==
    /\ pc = "tweet_details"
    /\ LET data == _try_tweet_details(o) IN
       IF o.kind = "raise" /\ Len(fetches) = 1
       THEN /\ pc' = "tweet_details"
            /\ fetches' = Issue(Answer(fetches, o), "tweet_details", "chain", tweet_id)
            /\ UNCHANGED <<tweet_data, method_used, diagnosis, result>>
       ELSE IF Truthy(data)
       THEN Won(data, "tweet_details", o)
       ELSE /\ pc' = "search"
            /\ fetches' = Issue(Answer(fetches, o), "search", "chain", tweet_id)
            /\ UNCHANGED <<tweet_data, method_used, diagnosis, result>>
    /\ UNCHANGED <<available, prev, other, main_tweet, stream_replies, url, tweet_id, threadVars>>

\* Method 1 (lines 409-416): api.tweet_details answers
TweetDetailsReturn(o) ==
    /\ pc = "tweet_details"
    /\ LET data == _try_tweet_details(o) IN
       IF Truthy(data)
       THEN Won(data, "tweet_details", o)
       ELSE /\ pc' = "search"
            /\ fetches' = Issue(Answer(fetches, o), "search", "chain", tweet_id)
            /\ UNCHANGED <<tweet_data, method_used, diagnosis, result>>
    /\ UNCHANGED <<available, prev, other, main_tweet, stream_replies, url, tweet_id, threadVars>>

\* mutant: _try_search_method without its handler: an exception of
\* api.search reaches the handler of lines 467-476 and ends the call
SearchReturnNoHandler(o) ==
    /\ pc = "search"
    /\ LET data == _try_search_method(o) IN
       IF o.kind = "raise"
       THEN /\ fetches' = Answer(fetches, o)
            /\ Finish(Failure(o.msg, o.msg))
            /\ UNCHANGED <<tweet_data, method_used, diagnosis>>
       ELSE IF Truthy(data)
       THEN Won(data, "search", o)
       ELSE /\ pc' = "raw"
            /\ fetches' = Issue(Answer(fetches, o), "tweet_details_raw", "chain", tweet_id)
            /\ UNCHANGED <<tweet_data, method_used, diagnosis, result>>
    /\ UNCHANGED <<available, prev, other, main_tweet, stream_replies, url, tweet_id, threadVars>>

\* mutant: the diagnosis starts as soon as the search gave nothing, the raw
\* request is not attempted
SearchReturnDiagnosesEarly(o) ==
    /\ pc = "search"
    /\ LET data == _try_search_method(o) IN
       IF Truthy(data)
       THEN Won(data, "search", o)
       ELSE /\ pc' = "diag_tweet_details"
            /\ tweet_data' = data
            /\ diagnosis' = NewDiagnosis(tweet_id)
            /\ fetches' = Issue(Answer(fetches, o), "tweet_details", "diagnosis", tweet_id)
            /\ UNCHANGED <<method_used, result>>
    /\ UNCHANGED <<available, prev, other, main_tweet, stream_replies, url, tweet_id, threadVars>>

\* Method 2 (lines 414-422): api.search answers
SearchReturn(o) ==
    /\ pc = "search"
    /\ LET data == _try_search_method(o) IN
       IF Truthy(data)
       THEN Won(data, "search", o)
       ELSE /\ pc' = "raw"
            /\ fetches' = Issue(Answer(fetches, o), "tweet_details_raw", "chain", tweet_id)
            /\ UNCHANGED <<tweet_data, method_used, diagnosis, result>>
    /\ UNCHANGED <<available, prev, other, main_tweet, stream_replies, url, tweet_id, threadVars>>

\* Method 3 (lines 420-430): api.tweet_details_raw answers; with no data
\* the diagnosis starts (lines 131-144)
RawReturn(o) ==
    /\ pc = "raw"
    /\ LET data == _try_raw_request(o) IN
       IF Truthy(data)
       THEN Won(data, "raw_graphql", o)
       ELSE /\ pc' = "diag_tweet_details"
            /\ tweet_data' = data
            /\ diagnosis' = NewDiagnosis(tweet_id)
            /\ fetches' = Issue(Answer(fetches, o), "tweet_details", "diagnosis", tweet_id)
            /\ UNCHANGED <<method_used, result>>
    /\ UNCHANGED <<available, prev, other, main_tweet, stream_replies, url, tweet_id, threadVars>>

\* mutant: a diagnosis whose probe found the tweet turns the call into a
\* success built from that tweet
DiagnosedRecovers(d, o) ==
    /\ diagnosis' = d
    /\ fetches' = Answer(fetches, o)
    /\ IF d.d.accessible = PyBool(TRUE)
       THEN Finish(ExtractContent(o.v, "tweet_details", tweet_id))
       ELSE Finish(NotFoundFailure(tweet_id, d))

\* the diagnosis returns d: lines 432-444
Diagnosed(d, o) ==
    /\ diagnosis' = d
    /\ fetches' = Answer(fetches, o)
    /\ Finish(NotFoundFailure(tweet_id, d))

\* Test 1 (lines 142-152)
DiagTweetDetailsReturn(o) ==
    /\ pc = "diag_tweet_details"
    /\ IF o.kind = "value" /\ Truthy(o.v)
       THEN Diagnosed(AddReason(SetAccessible(diagnosis),
                                <<"tweet_details", "method", "succeeded">>), o)
       ELSE /\ diagnosis' =
                  IF o.kind = "raise"
                  THEN AddReason(diagnosis, <<"tweet_details", "failed:">> \o o.msg)
                  ELSE AddReason(diagnosis, <<"tweet_details", "returned", "None">>)
            /\ pc' = "diag_search"
            /\ fetches' = Issue(Answer(fetches, o), "search", "diagnosis", tweet_id)
            /\ UNCHANGED result
    /\ UNCHANGED <<available, prev, other, main_tweet, stream_replies, url, tweet_id, tweet_data, method_used, threadVars>>

\* Test 2 (lines 154-168)
DiagSearchReturn(o) ==
    /\ pc = "diag_search"
    /\ IF o.kind = "yield"
       THEN Diagnosed(AddReason(SetAccessible(diagnosis),
                                <<"search", "method", "succeeded">>), o)
       ELSE /\ diagnosis' =
                  IF o.kind = "raise"
                  THEN AddReason(diagnosis, <<"search", "failed:">> \o o.msg)
                  ELSE AddReason(diagnosis, <<"search", "returned", "no", "results">>)
            /\ pc' = "diag_raw"
            /\ fetches' = Issue(Answer(fetches, o), "tweet_details_raw", "diagnosis", tweet_id)
            /\ UNCHANGED result
    /\ UNCHANGED <<available, prev, other, main_tweet, stream_replies, url, tweet_id, tweet_data, method_used, threadVars>>

\* Test 3 and the common suggestions (lines 170-207)
DiagRawReturn(o) ==
    /\ pc = "diag_raw"
    /\ Diagnosed(CommonSuggestions(RawProbe(diagnosis, o)), o)
    /\ UNCHANGED <<available, prev, other, main_tweet, stream_replies, url, tweet_id, tweet_data, method_used, threadVars>>

(***************************************************************************)
(* get_complete_thread (thread_extractor.py)                               *)
(***************************************************************************)
\* _format_tweet: the dict of a Tweet object, or the exception of a
\* missing attribute
_format_tweet(tweet) ==
    IF \/ tweet.t # "obj"
       \/ ~({"id", "rawContent", "user", "date", "likeCount", "retweetCount",
             "replyCount", "quoteCount"} \subseteq DOMAIN tweet.a)
       \/ (Truthy(tweet.a.user) /\ ~(HasAttr(tweet.a.user, "username")
                                     /\ HasAttr(tweet.a.user, "id")))
       \/ (Truthy(tweet.a.date) /\ tweet.a.date.t # "datetime")
    THEN Raised
    ELSE Dict([id |-> tweet.a.id,
               content |-> tweet.a.rawContent,
               author |-> IF Truthy(tweet.a.user) THEN tweet.a.user.a.username ELSE Unknown,
               author_id |-> IF Truthy(tweet.a.user) THEN tweet.a.user.a.id ELSE NoneV,
               date |-> IF Truthy(tweet.a.date) THEN PyStr(<<tweet.a.date.iso>>) ELSE NoneV,
               likes |-> tweet.a.likeCount,
               retweets |-> tweet.a.retweetCount,
               \* the literal's second "replies" key replaces tweet.replyCount
               replies |-> EmptyList,
               quotes |-> tweet.a.quoteCount,
               is_reply |-> IF HasAttr(tweet, "inReplyToTweetId")
                            THEN tweet.a.inReplyToTweetId ELSE PyBool(FALSE)])

\* mutant: the base case one level late
DepthReachedLate(depth, md) == depth > md

\* mutant: the recursion without its base case
DepthNeverReached(depth, md) == FALSE

\* line 83: the recursion's base case
DepthReached(depth, md) == depth >= md

\* line 47
TotalTweets(replies) == 1 + Len(replies)

\* a frame of _get_replies_recursive suspended in api.tweet_replies
NewFrame(id, depth) ==
    [tweet_id |-> id, depth |-> depth, replies |-> <<>>, i |-> 0,
     formatted_replies |-> <<>>, formatted_reply |-> NoneV]

Top(stk) == stk[Len(stk)]
Pop(stk) == SubSeq(stk, 1, Len(stk) - 1)
SetTop(stk, f) == [stk EXCEPT ![Len(stk)] = f]

\* The code of _get_replies_recursive from one suspension point to the next.
\* Each operator gives [stack, returned, value]: the frames suspended at the
\* next api.tweet_replies call, or the value the outermost call returned.
RECURSIVE RunLoop(_, _)
RECURSIVE Deliver(_, _, _)
RECURSIVE Enter(_, _, _, _)

\* lines 83-88: the call _get_replies_recursive(id, depth, md)
Enter(stk, id, depth, md) ==
    IF DepthReached(depth, md)
    THEN Deliver(stk, <<>>, md)
    ELSE [stack |-> Append(stk, NewFrame(id, depth)), returned |-> FALSE, value |-> <<>>]

\* lines 100-102: a call returns value to the frame that made it.  (The set
\* constructor evaluates the frames once, before the loop goes on.)
Deliver(stk, value, md) ==
    IF stk = <<>>
    THEN [stack |-> <<>>, returned |-> TRUE, value |-> value]
    ELSE LET f == Top(stk)
             node == Dict([f.formatted_reply.d EXCEPT !.replies = List(value)])
         IN  CHOOSE r \in
                 { RunLoop(s, md) :
                       s \in {SetTop(stk, [f EXCEPT !.formatted_replies = Append(@, node),
                                                    !.formatted_reply = NoneV,
                                                    !.i = @ + 1])} } : TRUE

\* lines 93-108: the loop of the top frame, at its reply i
RunLoop(stk, md) ==
    LET f == Top(stk) IN
    IF f.i > Len(f.replies)
    THEN CHOOSE r \in { Deliver(s, f.formatted_replies, md) : s \in {Pop(stk)} } : TRUE
    ELSE LET reply == f.replies[f.i]
             formatted_reply == _format_tweet(reply)
         IN  IF formatted_reply = Raised
             THEN CHOOSE r \in { Deliver(s, <<>>, md) : s \in {Pop(stk)} } : TRUE
             ELSE CHOOSE r \in
                      { Enter(s, reply.a.id, f.depth + 1, md) :
                            s \in {SetTop(stk, [f EXCEPT !.formatted_reply = formatted_reply])} }
                      : TRUE

\* lines 19-25
NewThread(md) ==
    Dict([original_tweet |-> NoneV, replies |-> EmptyList, total_tweets |-> PyInt(0),
          max_depth |-> PyInt(md), error |-> NoneV])

WithError(th, ws) == Dict([th.d EXCEPT !.error = W(ws)])

\* mutant: no handler, the exception leaves get_complete_thread
ThreadExceptMissing(th, e) == Raised

\* mutant: the handler returns the thread without recording the error
ThreadExceptSilent(th, e) == th

\* lines 51-55: the handler of get_complete_thread for an exception e
ThreadExcept(th, e) == WithError(th, <<"Error", "extracting", "thread:">> \o e)

\* get_complete_thread(tweet_id, max_depth) is called
ThreadCall(id, md) ==
    /\ pc = "idle"
    /\ available
    /\ tweet_id' = W(<<id>>)
    /\ max_depth' = md
    /\ thread' = NewThread(md)
    /\ pc' = "thread_check_accounts"
    /\ UNCHANGED <<available, prev, other, main_tweet, stream_replies, url, fetches, tweet_data, method_used, diagnosis, result, stack>>

\* _check_accounts returns (it swallows every exception); the root is fetched
ThreadCheckAccountsDone ==
    /\ pc = "thread_check_accounts"
    /\ pc' = "thread_tweet_details"
    /\ fetches' = Issue(fetches, "tweet_details", "thread", tweet_id)
    /\ UNCHANGED <<available, prev, other, main_tweet, stream_replies, url, tweet_id, tweet_data, method_used, diagnosis, result,
                   threadVars>>

\* the thread call returns th
ThreadFinish(th, o) ==
    /\ thread' = th
    /\ result' = th
    /\ stack' = <<>>
    /\ fetches' = Answer(fetches, o)
    /\ pc' = "thread_done"

\* lines 44-49 once _get_replies_recursive has run to r
ThreadStep(th, r, o) ==
    IF r.returned
    THEN ThreadFinish(Dict([th.d EXCEPT !.replies = List(r.value),
                                        !.total_tweets = PyInt(TotalTweets(r.value))]), o)
    ELSE /\ thread' = th
         /\ stack' = r.stack
         /\ fetches' = Issue(Answer(fetches, o), "tweet_replies", "thread",
                             Top(r.stack).tweet_id)
         /\ pc' = "thread_replies"
         /\ UNCHANGED result

\* lines 33-45: api.tweet_details answers for the root
ThreadTweetDetailsReturn(o) ==
    /\ pc = "thread_tweet_details"
    /\ IF o.kind = "raise"
       THEN ThreadFinish(ThreadExcept(thread, o.msg), o)
       ELSE IF ~Truthy(o.v)
       THEN ThreadFinish(WithError(thread, <<"Could", "not", "find", "original", "tweet:">>
                                           \o StrOf(tweet_id)), o)
       ELSE IF _format_tweet(o.v) = Raised
       THEN ThreadFinish(ThreadExcept(thread, <<"AttributeError">>), o)
       ELSE ThreadStep(Dict([thread.d EXCEPT !.original_tweet = _format_tweet(o.v)]),
                       Enter(<<>>, tweet_id, 0, max_depth), o)
    /\ UNCHANGED <<available, prev, other, main_tweet, stream_replies, url, tweet_id, tweet_data, method_used, diagnosis, max_depth>>

\* mutant: _get_replies_recursive without its handler (lines 106-108): an
\* exception of api.tweet_replies reaches the handler of get_complete_thread
ThreadRepliesReturnNoHandler(o) ==
    /\ pc = "thread_replies"
    /\ IF o.kind = "raise"
       THEN ThreadFinish(ThreadExcept(thread, o.msg), o)
       ELSE ThreadStep(thread,
                       RunLoop(SetTop(stack, [Top(stack) EXCEPT !.replies = o.v.l,
                                                                    !.i = 1]), max_depth),
                       o)
    /\ UNCHANGED <<available, prev, other, main_tweet, stream_replies, url, tweet_id, tweet_data, method_used, diagnosis, max_depth>>

\* lines 88-108: api.tweet_replies answers for the top frame
ThreadRepliesReturn(o) ==
    /\ pc = "thread_replies"
    /\ ThreadStep(thread,
                  IF o.kind = "raise"
                  THEN Deliver(Pop(stack), <<>>, max_depth)
                  ELSE RunLoop(SetTop(stack, [Top(stack) EXCEPT !.replies = o.v.l,
                                                               !.i = 1]), max_depth),
                  o)
    /\ UNCHANGED <<available, prev, other, main_tweet, stream_replies, url, tweet_id, tweet_data, method_used, diagnosis, max_depth>>

\* the caller has its result; the call's locals are gone
Return ==
    /\ pc \in {"done", "thread_done", "replies_done"}
    /\ pc' = "idle"
    /\ url' = NoneV
    /\ fetches' = <<>>
    /\ tweet_id' = NoneV
    /\ tweet_data' = NoneV
    /\ method_used' = NoneV
    /\ diagnosis' = NoneV
    /\ result' = NoneV
    /\ max_depth' = 0
    /\ thread' = NoThread
    /\ stack' = <<>>
    /\ main_tweet' = NoneV
    /\ stream_replies' = <<>>
    /\ UNCHANGED <<available, prev, other>>

Next ==
    \/ \E u \in Urls, b \in BOOLEAN : ExtractCall(u, b)
    \/ CheckAccountsDone
    \/ \E o \in DetailsOutcomes : TweetDetailsReturn(o)
    \/ \E o \in SearchOutcomes : SearchReturn(o)
    \/ \E o \in RawOutcomes : RawReturn(o)
    \/ \E o \in DetailsOutcomes : DiagTweetDetailsReturn(o)
    \/ \E o \in SearchOutcomes : DiagSearchReturn(o)
    \/ \E o \in ProbeRawOutcomes : DiagRawReturn(o)
    \/ \E id \in DigitSegs, md \in 0..MaxDepth : ThreadCall(id, md)
    \/ ThreadCheckAccountsDone
    \/ \E o \in DetailsOutcomes : ThreadTweetDetailsReturn(o)
    \/ \E o \in RepliesOutcomes : ThreadRepliesReturn(o)
    \/ Return

Spec == Init /\ [][Next]_vars

\* the steps of a get_complete_thread call: the client answers the call
\* the coroutine awaits
ThreadProgress ==
    \/ ThreadCheckAccountsDone
    \/ \E o \in DetailsOutcomes : ThreadTweetDetailsReturn(o)
    \/ \E o \in RepliesOutcomes : ThreadRepliesReturn(o)

\* every awaited call of a thread extraction is eventually answered
LiveSpec == Spec /\ WF_vars(ThreadProgress)

(***************************************************************************)
(* Two calls of extract_twitter_content, one after the other, on the same  *)
(* instance: the second one for the URL of the first, against a client     *)
(* that answers every fetch as it answered it in the first call.           *)
(***************************************************************************)
\* the first call returns; the caller keeps what it asked and what it got
ReturnFirst ==
    /\ pc = "done"
    /\ prev = NoneV
    /\ prev' = [url |-> url, fetches |-> fetches, result |-> result]
    /\ pc' = "idle"
    /\ url' = NoneV
    /\ fetches' = <<>>
    /\ tweet_id' = NoneV
    /\ tweet_data' = NoneV
    /\ method_used' = NoneV
    /\ diagnosis' = NoneV
    /\ result' = NoneV
    /\ UNCHANGED <<available, other, main_tweet, stream_replies, threadVars>>

\* the URLs of the next call: any in the first call, the same in the second
SameUrl == IF prev = NoneV THEN Urls ELSE {prev.url}

\* the answers the client can give to the pending fetch: any of S in the
\* first call; in the second call the answer it gave to the same fetch of the
\* first call
SameAnswers(S) ==
    IF prev = NoneV THEN S
    ELSE {o \in S : /\ fetches # <<>>
                    /\ Len(fetches) <= Len(prev.fetches)
                    /\ prev.fetches[Len(fetches)].api = fetches[Len(fetches)].api
                    /\ prev.fetches[Len(fetches)].outcome = o}

TwiceNext ==
    \/ \E u \in SameUrl, b \in BOOLEAN : ExtractCall(u, b)
    \/ CheckAccountsDone
    \/ \E o \in SameAnswers(DetailsOutcomes) : TweetDetailsReturn(o)
    \/ \E o \in SameAnswers(SearchOutcomes) : SearchReturn(o)
    \/ \E o \in SameAnswers(RawOutcomes) : RawReturn(o)
    \/ \E o \in SameAnswers(DetailsOutcomes) : DiagTweetDetailsReturn(o)
    \/ \E o \in SameAnswers(SearchOutcomes) : DiagSearchReturn(o)
    \/ \E o \in SameAnswers(ProbeRawOutcomes) : DiagRawReturn(o)
    \/ ReturnFirst

TwiceSpec == Init /\ [][TwiceNext]_vars

(***************************************************************************)
(* Two get_complete_thread coroutines on one extractor.  The variables     *)
(* hold the locals of the coroutine the event loop resumes next, other     *)
(* holds the locals of the suspended one.  The loop may switch at every    *)
(* await, and an extractor has no attribute but the client.                *)
(***************************************************************************)
\* the locals of the coroutine that runs, to be suspended as who
Suspended(who) ==
    [who |-> who, pc |-> pc, tweet_id |-> tweet_id, max_depth |-> max_depth,
     thread |-> thread, stack |-> stack, fetches |-> fetches, result |-> result]

\* mutant: the thread dict is an attribute of the extractor, the two
\* coroutines work on the same one
SwitchSharesThread ==
    /\ other' = Suspended(3 - other.who)
    /\ pc' = other.pc
    /\ tweet_id' = other.tweet_id
    /\ max_depth' = other.max_depth
    /\ stack' = other.stack
    /\ fetches' = other.fetches
    /\ result' = other.result
    /\ UNCHANGED <<available, main_tweet, stream_replies, url, tweet_data, method_used, diagnosis, prev, thread>>

\* the event loop suspends the running coroutine at its await and resumes
\* the other one: each coroutine keeps its own locals (lines 19-25, 80-91)
Switch ==
    /\ other' = Suspended(3 - other.who)
    /\ pc' = other.pc
    /\ tweet_id' = other.tweet_id
    /\ max_depth' = other.max_depth
    /\ thread' = other.thread
    /\ stack' = other.stack
    /\ fetches' = other.fetches
    /\ result' = other.result
    /\ UNCHANGED <<available, main_tweet, stream_replies, url, tweet_data, method_used, diagnosis, prev>>

\* the answers of the client in the concurrent runs
ConcDetailsOutcomes ==
    { [kind |-> "value", v |-> TweetFull], [kind |-> "value", v |-> NoneV],
      [kind |-> "raise", msg |-> <<"timeout">>] }

ConcRepliesOutcomes ==
    { [kind |-> "value", v |-> List(<<>>)], [kind |-> "value", v |-> List(<<ReplyA, ReplyB>>)],
      [kind |-> "raise", msg |-> <<"timeout">>] }

\* the root the coroutine who is called for: the two calls are for
\* different roots
ConcRoot(who) == IF who = 1 THEN "111" ELSE "222"

ConcNext ==
    \/ \E md \in 0..MaxDepth : ThreadCall(ConcRoot(3 - other.who), md)
    \/ ThreadCheckAccountsDone
    \/ \E o \in ConcDetailsOutcomes : ThreadTweetDetailsReturn(o)
    \/ \E o \in ConcRepliesOutcomes : ThreadRepliesReturn(o)
    \/ Switch

ConcSpec == Init /\ [][ConcNext]_vars

(***************************************************************************)
(* A get_complete_thread call that its caller cancels while a reply fetch  *)
(* is outstanding.  The CancelledError thrown into the await of line 88 is *)
(* a BaseException: neither `except Exception` (lines 106 and 51) catches  *)
(* it, so it leaves every frame and the call.                              *)
(***************************************************************************)
Cancelled == [kind |-> "cancelled"]

\* the cancellation, were CancelledError caught by the handler of lines
\* 106-108 as any Exception is
CancelCaught ==
    /\ pc = "thread_replies"
    /\ ThreadStep(thread, Deliver(Pop(stack), <<>>, max_depth), Cancelled)
    /\ UNCHANGED <<available, prev, other, main_tweet, stream_replies, url, tweet_id, tweet_data, method_used, diagnosis,
                   max_depth>>

\* lines 88, 106, 51: the caller cancels the task while api.tweet_replies is
\* awaited; the exception unwinds every frame and the locals are gone
Cancel ==
    /\ pc = "thread_replies"
    /\ fetches' = Answer(fetches, Cancelled)
    /\ pc' = "thread_cancelled"
    /\ stack' = <<>>
    /\ thread' = NoThread
    /\ UNCHANGED <<available, prev, other, main_tweet, stream_replies, url, tweet_id, tweet_data, method_used, diagnosis,
                   result, max_depth>>

CancelNext ==
    \/ \E id \in DigitSegs, md \in 0..MaxDepth : ThreadCall(id, md)
    \/ ThreadCheckAccountsDone
    \/ \E o \in DetailsOutcomes : ThreadTweetDetailsReturn(o)
    \/ \E o \in RepliesOutcomes : ThreadRepliesReturn(o)
    \/ Cancel
    \/ Return

CancelSpec == Init /\ [][CancelNext]_vars

(***************************************************************************)
(* extract_tweet_with_replies                                              *)
(***************************************************************************)
\* the most replies the stream of api.tweet_replies delivers (limit=20 in
\* the code)
MaxReplies == 2

\* the replies the stream can deliver: two complete Tweets and one whose
\* user is None
StreamTweets == {ReplyA, TweetFull, ReplyB}

\* the failure dicts of extract_tweet_with_replies
RepliesFailure(error, content) ==
    Dict([success |-> PyBool(FALSE),
          error |-> W(error),
          title |-> W(<<"Twitter/X", "Post", "with", "Replies">>),
          extracted_content |-> W(<<"Failed", "to", "extract:">> \o content)])

\* the attribute reads of lines 307-360 succeed for the main tweet
MainFormats(tweet) ==
    /\ {"user", "date", "rawContent", "likeCount", "retweetCount", "replyCount",
        "quoteCount"} \subseteq DOMAIN tweet.a
    /\ HasAttr(tweet.a.user, "username")
    /\ tweet.a.rawContent.t = "str"

\* the attribute reads of lines 326-338 succeed for a reply
ReplyFormats(reply) ==
    /\ reply.t = "obj"
    /\ {"user", "id", "date", "rawContent", "likeCount", "retweetCount", "replyCount"}
           \subseteq DOMAIN reply.a
    /\ HasAttr(reply.a.user, "username")

\* lines 325-339: the text of the replies from reply i on
RECURSIVE RepliesContent(_, _)
RepliesContent(rs, i) ==
    IF i > Len(rs) THEN <<>>
    ELSE <<"Reply", ToString(i), "Author:", "@">> \o StrOf(rs[i].a.user.a.username)
         \o <<"Tweet", "ID:">> \o StrOf(rs[i].a.id)
         \o <<"Posted:">> \o StrOf(rs[i].a.date)
         \o <<"Content:">> \o StrOf(rs[i].a.rawContent)
         \o <<"Likes:">> \o StrOf(rs[i].a.likeCount)
         \o <<"Retweets:">> \o StrOf(rs[i].a.retweetCount)
         \o <<"Replies:">> \o StrOf(rs[i].a.replyCount)
         \o RepliesContent(rs, i + 1)

\* lines 307-370: the result for the main tweet and the replies collected
FormatWithReplies(tweet, rs, tid) ==
    IF ~MainFormats(tweet) \/ \E i \in 1..Len(rs) : ~ReplyFormats(rs[i])
    THEN RepliesFailure(<<"AttributeError">>, <<"AttributeError">>)
    ELSE LET main_content ==
                 <<"MAIN", "TWEET:", "Twitter/X", "Post", "by", "@">>
                 \o StrOf(tweet.a.user.a.username)
                 \o <<"Tweet", "ID:">> \o StrOf(tid)
                 \o <<"Posted:">> \o StrOf(tweet.a.date)
                 \o <<"Content:">> \o tweet.a.rawContent.s
                 \o <<"Likes:">> \o StrOf(tweet.a.likeCount)
                 \o <<"Retweets:">> \o StrOf(tweet.a.retweetCount)
                 \o <<"Replies:">> \o StrOf(tweet.a.replyCount)
                 \o <<"Quotes:">> \o StrOf(tweet.a.quoteCount)
         IN  Dict([success |-> PyBool(TRUE),
                   title |-> W(<<"Twitter/X", "Post", "by", "@">>
                               \o StrOf(tweet.a.user.a.username)
                               \o <<"with", ToString(Len(rs)), "replies">>),
                   extracted_content |->
                       W(main_content
                         \o (IF rs # <<>>
                             THEN <<"REPLIES:">> \o RepliesContent(rs, 1)
                             ELSE <<"No", "replies", "found.">>)),
                   word_count |-> PyInt(Len(tweet.a.rawContent.s)),
                   metadata |-> Dict([tweet_id |-> tid,
                                      author |-> tweet.a.user.a.username,
                                      replies_count |-> PyInt(Len(rs)),
                                      main_tweet |-> Dict([likes |-> tweet.a.likeCount,
                                                           retweets |-> tweet.a.retweetCount,
                                                           replies |-> tweet.a.replyCount,
                                                           quotes |-> tweet.a.quoteCount])])])

\* int(tweet_id) of line 301, for a string of digits
IntOf(tid) == PyInt(CHOOSE n \in {111, 222} : <<ToString(n)>> = tid.s)

\* the call has returned r
FinishReplies(r) ==
    /\ pc' = "replies_done"
    /\ result' = r

\* the call, were lines 278-284 missing: the main tweet is fetched whatever
\* the identifier
WithRepliesCallNoGuard(u) ==
    /\ pc = "idle"
    /\ url' = u
    /\ IF ~available
       THEN /\ FinishReplies(RepliesFailure(<<"twscrape", "not", "available">>,
                                            <<"twscrape", "not", "available">>))
            /\ UNCHANGED <<fetches, tweet_id>>
       ELSE /\ tweet_id' = extract_twitter_id_from_url(u)
            /\ pc' = "replies_tweet_details"
            /\ fetches' = Issue(fetches, "tweet_details", "replies",
                                extract_twitter_id_from_url(u))
            /\ UNCHANGED result
    /\ UNCHANGED <<available, prev, other, main_tweet, stream_replies, tweet_data, method_used,
                   diagnosis, threadVars>>

\* extract_tweet_with_replies(url) is called (lines 263-289)
WithRepliesCall(u) ==
    /\ pc = "idle"
    /\ url' = u
    /\ IF ~available
       THEN /\ FinishReplies(RepliesFailure(<<"twscrape", "not", "available">>,
                                            <<"twscrape", "not", "available">>))
            /\ UNCHANGED <<fetches, tweet_id>>
       ELSE LET tid == extract_twitter_id_from_url(u) IN
            IF ~Truthy(tid)
            THEN /\ FinishReplies(RepliesFailure(<<"Could", "not", "extract", "tweet", "ID",
                                                   "from", "URL">>,
                                                 <<"Invalid", "Twitter/X", "URL", "format">>))
                 /\ UNCHANGED <<fetches, tweet_id>>
            ELSE /\ tweet_id' = tid
                 /\ pc' = "replies_tweet_details"
                 /\ fetches' = Issue(fetches, "tweet_details", "replies", tid)
                 /\ UNCHANGED result
    /\ UNCHANGED <<available, prev, other, main_tweet, stream_replies, tweet_data, method_used,
                   diagnosis, threadVars>>

\* lines 289-301: api.tweet_details answers for the main tweet
MainTweetReturn(o) ==
    /\ pc = "replies_tweet_details"
    /\ IF o.kind = "raise"
       THEN /\ FinishReplies(RepliesFailure(o.msg, o.msg))
            /\ fetches' = Answer(fetches, o)
            /\ UNCHANGED main_tweet
       ELSE IF ~Truthy(o.v)
       THEN /\ FinishReplies(RepliesFailure(<<"Could", "not", "find", "tweet", "with", "ID:">>
                                                \o StrOf(tweet_id),
                                            <<"Tweet", "not", "found">>))
            /\ fetches' = Answer(fetches, o)
            /\ UNCHANGED main_tweet
       ELSE /\ main_tweet' = o.v
            /\ pc' = "replies_stream"
            /\ fetches' = Issue(Answer(fetches, o), "tweet_replies", "replies",
                                IntOf(tweet_id))
            /\ UNCHANGED result
    /\ UNCHANGED <<available, prev, other, stream_replies, url, tweet_id, tweet_data,
                   method_used, diagnosis, threadVars>>

\* lines 301-302: the stream delivers a reply
ReplyYield(tweet) ==
    /\ pc = "replies_stream"
    /\ Len(stream_replies) < MaxReplies
    /\ stream_replies' = Append(stream_replies, tweet)
    /\ UNCHANGED <<available, prev, other, main_tweet, pc, url, fetches, tweet_id, tweet_data,
                   method_used, diagnosis, result, threadVars>>

\* the stream stops, were lines 300-304 without their handler: an exception
\* reaches the handler of lines 363-370
StreamOverUnhandled(o) ==
    /\ pc = "replies_stream"
    /\ fetches' = Answer(fetches, o)
    /\ FinishReplies(IF o.kind = "raise"
                     THEN RepliesFailure(o.msg, o.msg)
                     ELSE FormatWithReplies(main_tweet, stream_replies, tweet_id))
    /\ UNCHANGED <<available, prev, other, main_tweet, stream_replies, url, tweet_id,
                   tweet_data, method_used, diagnosis, threadVars>>

\* lines 301-361: the stream ends or raises; the result is built from the
\* replies collected
StreamOver(o) ==
    /\ pc = "replies_stream"
    /\ fetches' = Answer(fetches, o)
    /\ FinishReplies(FormatWithReplies(main_tweet, stream_replies, tweet_id))
    /\ UNCHANGED <<available, prev, other, main_tweet, stream_replies, url, tweet_id,
                   tweet_data, method_used, diagnosis, threadVars>>

\* how the stream can stop: it ends, it raises
StreamEnds == {[kind |-> "end"]} \cup [kind : {"raise"}, msg : ExcMsgs]

RepliesNext ==
    \/ \E u \in Urls, b \in BOOLEAN : ExtractCall(u, b)
    \/ CheckAccountsDone
    \/ \E o \in DetailsOutcomes : TweetDetailsReturn(o)
    \/ \E o \in SearchOutcomes : SearchReturn(o)
    \/ \E o \in RawOutcomes : RawReturn(o)
    \/ \E o \in DetailsOutcomes : DiagTweetDetailsReturn(o)
    \/ \E o \in SearchOutcomes : DiagSearchReturn(o)
    \/ \E o \in ProbeRawOutcomes : DiagRawReturn(o)
    \/ \E u \in Urls : WithRepliesCall(u)
    \/ \E o \in DetailsOutcomes : MainTweetReturn(o)
    \/ \E tweet \in StreamTweets : ReplyYield(tweet)
    \/ \E o \in StreamEnds : StreamOver(o)
    \/ Return

RepliesSpec == Init /\ [][RepliesNext]_vars

(***************************************************************************)
(* The two parsers alone, applied to every payload of a family: raw bodies *)
(* of up to two instructions with entries of several kinds, and Tweet      *)
(* objects that lack any set of their optional attributes.                 *)
(***************************************************************************)
\* the most entries of one instruction
MaxEntries == 2

\* a second well-formed post entry, of another author
EntryTweetBob ==
    Dict([entryId |-> PyStr(<<"tweet-333">>),
          content |-> Dict([entryType |-> PyStr(<<"Tweet">>),
            itemContent |-> Dict([tweet_results |-> Dict([result |-> Dict([
              legacy |-> Dict([full_text |-> PyStr(<<"a", "later", "post">>),
                               favorite_count |-> PyInt(9),
                               retweet_count |-> PyInt(8),
                               reply_count |-> PyInt(7),
                               quote_count |-> PyInt(6)]),
              core |-> Dict([user_results |-> Dict([result |-> Dict([
                legacy |-> Dict([screen_name |-> PyStr(<<"bob">>)])])])])
            ])])])])])

\* a post entry whose tweet result is empty (a tombstone)
EntryEmptyResult ==
    Dict([entryId |-> PyStr(<<"tweet-444">>),
          content |-> Dict([entryType |-> PyStr(<<"Tweet">>),
            itemContent |-> Dict([tweet_results |-> Dict([result |-> EmptyDict])])])])

\* a post entry without the key tweet_results
EntryNoTweetResults ==
    Dict([entryId |-> PyStr(<<"tweet-445">>),
          content |-> Dict([entryType |-> PyStr(<<"Tweet">>),
            itemContent |-> Dict([itemType |-> PyStr(<<"TimelineTweet">>)])])])

\* a post entry whose tweet result has no legacy fields
EntryNoLegacy ==
    Dict([entryId |-> PyStr(<<"tweet-555">>),
          content |-> Dict([entryType |-> PyStr(<<"Tweet">>),
            itemContent |-> Dict([tweet_results |-> Dict([result |-> Dict([
              core |-> Dict([user_results |-> Dict([result |-> Dict([
                legacy |-> Dict([screen_name |-> PyStr(<<"carol">>)])])])])
            ])])])])])

\* a post entry whose tweet result has no core (no user result)
EntryNoCore ==
    Dict([entryId |-> PyStr(<<"tweet-666">>),
          content |-> Dict([entryType |-> PyStr(<<"Tweet">>),
            itemContent |-> Dict([tweet_results |-> Dict([result |-> Dict([
              legacy |-> Dict([full_text |-> PyStr(<<"no", "author">>),
                               favorite_count |-> PyInt(4)])
            ])])])])])

\* a post entry whose user result has no legacy fields
EntryNoUserLegacy ==
    Dict([entryId |-> PyStr(<<"tweet-777">>),
          content |-> Dict([entryType |-> PyStr(<<"Tweet">>),
            itemContent |-> Dict([tweet_results |-> Dict([result |-> Dict([
              legacy |-> Dict([full_text |-> PyStr(<<"no", "handle">>)]),
              core |-> Dict([user_results |-> Dict([result |-> Dict([
                rest_id |-> PyStr(<<"7">>)])])])
            ])])])])])

EntryKinds ==
    { EntryTweet, EntryTweetBob, EntryCursor, EntryEmptyResult, EntryNoTweetResults,
      EntryNoLegacy, EntryNoCore, EntryNoUserLegacy }

\* the sequences over S of length n at most
SeqsUpTo(S, n) == UNION {[1..k -> S] : k \in 0..n}

\* the instructions: TimelineAddEntries with some entries, and another type
Instructions ==
    {AddEntries(l) : l \in SeqsUpTo(EntryKinds, MaxEntries)}
    \cup {Dict([type |-> PyStr(<<"TimelineClearCache">>)])}

\* the raw bodies: none, one or two instructions, and the bodies without
\* an instruction list
RawInputs ==
    {RawBody(<<>>)}
    \cup {RawBody(<<a>>) : a \in Instructions}
    \cup {RawBody(<<a, b>>) : a \in Instructions, b \in {AddEntries(<<e>>) : e \in EntryKinds}}
    \cup {RawNoInstructions, RawNoData, EmptyDict}

\* the attributes a Tweet object may lack
OptionalAttrs ==
    {"rawContent", "user", "date", "likeCount", "retweetCount", "replyCount", "quoteCount"}

\* the shapes of a user: with username, with screen_name, a dict, another
\* object
UserShapes ==
    { UserAlice,
      Obj([screen_name |-> PyStr(<<"alice">>)]),
      Dict([username |-> PyStr(<<"alice">>)]),
      Dict([name |-> PyStr(<<"Alice">>)]),
      Obj([id |-> PyInt(7)]) }

\* the Tweet objects: TweetFull without any set of optional attributes,
\* with a user of any shape
ObjectInputs ==
    { Obj([k \in (S \cup {"id"}) |-> IF k = "user" THEN u ELSE TweetFull.a[k]]) :
          S \in SUBSET OptionalAttrs, u \in UserShapes }

ParserInit ==
    /\ available = TRUE
    /\ pc = "parse"
    /\ url = NoneV
    /\ fetches = <<>>
    /\ tweet_id = PyStr(<<"111">>)
    /\ \/ method_used = PyStr(<<"raw_graphql">>) /\ tweet_data \in RawInputs
       \/ method_used = PyStr(<<"tweet_details">>) /\ tweet_data \in ObjectInputs
    /\ diagnosis = NoneV
    /\ result = NoneV
    /\ max_depth = 0
    /\ thread = NoThread
    /\ stack = <<>>
    /\ prev = NoneV
    /\ other = NotStarted(2)
    /\ main_tweet = NoneV
    /\ stream_replies = <<>>

\* lines 449-451: the raw parser is applied
ParseRaw ==
    /\ pc = "parse"
    /\ method_used = PyStr(<<"raw_graphql">>)
    /\ result' = _extract_from_raw_response(tweet_data, tweet_id)
    /\ pc' = "parsed"
    /\ UNCHANGED <<available, prev, other, main_tweet, stream_replies, url, fetches, tweet_id, tweet_data, method_used,
                   diagnosis, threadVars>>

\* lines 452-454: the parser of Tweet objects is applied
ParseObject ==
    /\ pc = "parse"
    /\ method_used # PyStr(<<"raw_graphql">>)
    /\ result' = _extract_from_tweet_object(tweet_data, tweet_id)
    /\ pc' = "parsed"
    /\ UNCHANGED <<available, prev, other, main_tweet, stream_replies, url, fetches, tweet_id, tweet_data, method_used,
                   diagnosis, threadVars>>

ParserNext == ParseRaw \/ ParseObject

ParserSpec == ParserInit /\ [][ParserNext]_vars

(***************************************************************************)
(* Properties                                                              *)
(***************************************************************************)
\* the fetches of the strategy chain, of the diagnosis, the reply fetches
ChainLog == SelectSeq(fetches, LAMBDA e : e.phase = "chain")
DiagLog == SelectSeq(fetches, LAMBDA e : e.phase = "diagnosis")
ReplyLog == SelectSeq(fetches, LAMBDA e : e.api = "tweet_replies")

StrategyOrder == <<"tweet_details", "search", "tweet_details_raw">>

\* the client answered the logged fetch e with data
GaveData(e) ==
    \/ e.api = "tweet_details" /\ e.outcome.kind = "value" /\ e.outcome.v.t = "obj"
    \/ e.api = "search" /\ e.outcome.kind = "yield"
    \/ /\ e.api = "tweet_details_raw"
       /\ e.outcome.kind = "response"
       /\ e.outcome.status_code = 200
       /\ e.outcome.json_ok
       /\ e.outcome.body # EmptyDict

\* the client answered the logged fetch e with nothing, or raised
GaveNothing(e) == e.outcome.kind # "pending" /\ ~GaveData(e)

ExtractDone == pc = "done"
ThreadDone == pc = "thread_done"
Succeeded == result.t = "dict" /\ result.d.success = PyBool(TRUE)
Failed == result.t = "dict" /\ result.d.success = PyBool(FALSE)
HasDiagnosis == result.t = "dict" /\ "diagnosis" \in DOMAIN result.d
Reasons == result.d.diagnosis.d.reasons.l
Suggestions == result.d.diagnosis.d.suggestions.l

\* C1: the chain's fetches are issued in the order tweet_details, search,
\* raw request; a fetch of the chain is issued only after every earlier one
\* was answered with nothing or raised, so that no fetch of the chain follows
\* one that returned data.
C1_StrategyOrder ==
    /\ Len(ChainLog) <= 3
    /\ \A i \in 1..Len(ChainLog) : ChainLog[i].api = StrategyOrder[i]
    /\ \A i \in 1..(Len(ChainLog) - 1) : GaveNothing(ChainLog[i])

\* C1 witness: search was tried after tweet_details raised, it returned
\* data and the call ended without a raw request
C1_Witness ==
    /\ ExtractDone
    /\ Len(ChainLog) = 2
    /\ ChainLog[1].outcome.kind = "raise"
    /\ GaveData(ChainLog[2])

\* C2 (as claimed): a call that fails for a parsed identifier has exhausted
\* all three strategies; a fetch that returned data the paired parser
\* extracts no post from does not end the call.
C2_FailsOnlyWhenExhausted ==
    (ExtractDone /\ Failed /\ Truthy(tweet_id)) =>
        /\ Len(ChainLog) = 3
        /\ ChainLog[3].outcome.kind # "pending"

ThreadKeys == {"original_tweet", "replies", "total_tweets", "max_depth", "error"}

\* C4: whatever the client answers, a finished extract_twitter_content call
\* has returned a dict with a boolean success, a finished get_complete_thread
\* call has returned a thread dict, and no suspended call is stuck: no
\* exception reaches the caller.
C4_AlwaysAResult ==
    /\ ExtractDone => (result.t = "dict" /\ "success" \in DOMAIN result.d
                       /\ result.d.success.t = "bool")
    /\ ThreadDone => (result.t = "dict" /\ DOMAIN result.d = ThreadKeys
                      /\ result.d.replies.t = "list"
                      /\ result.d.total_tweets.t = "int")
    /\ pc \in {"idle", "done", "thread_done", "check_accounts", "tweet_details", "search",
               "raw", "diag_tweet_details", "diag_search", "diag_raw",
               "thread_check_accounts", "thread_tweet_details", "thread_replies"}

\* C4 witness: a thread call whose root fetch raised has returned its dict
C4_Witness ==
    /\ ThreadDone
    /\ fetches[1].outcome.kind = "raise"
    /\ result.d.error # NoneV

\* the probe a reason of the diagnosis reports on
ReasonProbe(r) ==
    IF r.s[1] = "tweet_details" THEN "tweet_details"
    ELSE IF r.s[1] = "search" THEN "search"
    ELSE "tweet_details_raw"

C6_FailureHasDiagnosis ==
    (ExtractDone /\ Failed /\ Truthy(tweet_id)) =>
        /\ HasDiagnosis
        /\ DOMAIN result.d.diagnosis.d = {"tweet_id", "accessible", "reasons", "suggestions"}

\* the client answered every fetch of the call: tweet_details with None,
\* search with no result, the raw request with HTTP 200 and instructions = []
EmptyInstructionsUpstream ==
    /\ Len(fetches) >= 3
    /\ \A i \in 1..Len(fetches) :
           \/ fetches[i].api = "tweet_details" /\ fetches[i].outcome = [kind |-> "value", v |-> NoneV]
           \/ fetches[i].api = "search" /\ fetches[i].outcome = [kind |-> "empty"]
           \/ /\ fetches[i].api = "tweet_details_raw"
              /\ fetches[i].outcome = [kind |-> "response", status_code |-> 200,
                                       body |-> RawEmptyInstructions, json_ok |-> TRUE]

\* C7 (as claimed): for such an identifier the call ends in a failure whose
\* diagnosis has a reason containing "likely deleted or private" and whose
\* suggestions include the deletion advice.
C7_EmptyInstructionsDiagnosed ==
    (ExtractDone /\ EmptyInstructionsUpstream) =>
        /\ Failed
        /\ HasDiagnosis
        /\ \E i \in 1..Len(Reasons) :
               Contains(Reasons[i].s, <<"likely", "deleted", "or", "private">>)
        /\ \E i \in 1..Len(Suggestions) : Contains(Suggestions[i].s, <<"deleted">>)

\* C8: get_complete_thread(id, 0) issues no reply fetch, and with the root
\* resolved it returns the root with an empty reply list.
C8_DepthZeroNoReplyFetch ==
    (pc \in {"thread_tweet_details", "thread_replies", "thread_done"} /\ max_depth = 0) =>
        /\ ReplyLog = <<>>
        /\ (ThreadDone /\ GaveData(fetches[1]) /\ _format_tweet(fetches[1].outcome.v) # Raised) =>
               /\ result.d.original_tweet = _format_tweet(fetches[1].outcome.v)
               /\ result.d.replies = EmptyList
               /\ result.d.error = NoneV

\* C8 witness: a call with max_depth = 0 has returned its root
C8_Witness ==
    /\ ThreadDone
    /\ max_depth = 0
    /\ result.d.original_tweet # NoneV

\* the largest depth of a node of the forest nodes, whose roots are at depth d
RECURSIVE DeepestNode(_, _)
DeepestNode(nodes, d) ==
    IF nodes = <<>> THEN d - 1
    ELSE LET below == {DeepestNode(nodes[i].d.replies.l, d + 1) : i \in 1..Len(nodes)}
         IN  CHOOSE m \in below : \A k \in below : k <= m

\* the number of nodes of the forest nodes
RECURSIVE CountNodes(_)
CountNodes(nodes) ==
    IF nodes = <<>> THEN 0
    ELSE 1 + CountNodes(Head(nodes).d.replies.l) + CountNodes(Tail(nodes))

\* whether a node of the forest carries the identifier id
RECURSIVE HasId(_, _)
HasId(nodes, id) ==
    \E i \in 1..Len(nodes) : nodes[i].d.id = id \/ HasId(nodes[i].d.replies.l, id)

\* C9: in the returned tree, the root at depth 0 and its replies at depth 1,
\* no node is deeper than max_depth; no suspended frame is at depth
\* max_depth or deeper.
C9_DepthBounded ==
    /\ \A i \in 1..Len(stack) : stack[i].depth = i - 1 /\ stack[i].depth < max_depth
    /\ ThreadDone => DeepestNode(result.d.replies.l, 1) <= max_depth

\* C9 witness: a tree as deep as max_depth = 2 in which a reply carries
\* the identifier of the root
C9_Witness ==
    /\ ThreadDone
    /\ max_depth = 2
    /\ DeepestNode(result.d.replies.l, 1) = 2
    /\ HasId(result.d.replies.l, PyInt(111))
    /\ result.d.original_tweet.d.id = PyInt(111)

\* C10 (as claimed): total_tweets is 1 plus the number of all nodes of the
\* returned reply tree.
C10_TotalCountsAllNodes ==
    (ThreadDone /\ result.d.original_tweet # NoneV) =>
        result.d.total_tweets = PyInt(1 + CountNodes(result.d.replies.l))

\* the run of _get_replies_recursive from the suspended fetch of the top
\* frame on, had api.tweet_replies returned the empty list
HadNoReplies ==
    RunLoop(SetTop(stack, [Top(stack) EXCEPT !.replies = <<>>, !.i = 1]), max_depth)

\* C11: when api.tweet_replies raises for a node, the call goes on exactly as
\* if the fetch had returned no replies: the same frames stay suspended with
\* the same siblings already built, the same next fetch is issued or the same
\* thread is returned, and the root and the top-level error are untouched.
C11_ReplyFetchErrorIsolated ==
    [][(pc = "thread_replies" /\ fetches'[Len(fetches)].outcome.kind = "raise") =>
           LET r == HadNoReplies IN
           /\ thread'.d.original_tweet = thread.d.original_tweet
           /\ thread'.d.error = NoneV
           /\ IF r.returned
              THEN /\ pc' = "thread_done"
                   /\ stack' = <<>>
                   /\ thread'.d.replies = List(r.value)
                   /\ result' = thread'
              ELSE /\ pc' = "thread_replies"
                   /\ stack' = r.stack
                   /\ thread' = thread
                   /\ fetches'[Len(fetches')].arg = Top(r.stack).tweet_id]_vars

\* C11 witness: the reply fetch of the first of two replies raised; the
\* thread was returned with that reply childless, its sibling with a child,
\* the root in place and no top-level error
C11_Witness ==
    /\ ThreadDone
    /\ Len(ReplyLog) = 3
    /\ ReplyLog[2].outcome.kind = "raise"
    /\ result.d.error = NoneV
    /\ result.d.original_tweet # NoneV
    /\ Len(result.d.replies.l) = 2
    /\ result.d.replies.l[1].d.replies = EmptyList
    /\ result.d.replies.l[2].d.replies # EmptyList

\* C12: when api.tweet_details returns nothing or raises for the root,
\* get_complete_thread returns a thread with original_tweet None, a non-empty
\* error, replies [] and total_tweets 0, and api.tweet_replies is never called.
C12_UnresolvedRootFails ==
    (pc \in {"thread_replies", "thread_done"} /\ GaveNothing(fetches[1])) =>
        /\ ThreadDone
        /\ ReplyLog = <<>>
        /\ result.d.original_tweet = NoneV
        /\ result.d.error.t = "str"
        /\ result.d.error.s # <<>>
        /\ result.d.replies = EmptyList
        /\ result.d.total_tweets = PyInt(0)

\* C12 witness: api.tweet_details returned None for the root and the call
\* has returned
C12_Witness ==
    /\ ThreadDone
    /\ fetches[1].outcome = [kind |-> "value", v |-> NoneV]
    /\ result.d.original_tweet = NoneV

\* the fetches get_complete_thread issued for its root
RootLog == SelectSeq(fetches, LAMBDA e : e.phase = "thread" /\ e.api # "tweet_replies")

\* C13 (as claimed): get_complete_thread resolves its root through the
\* three-strategy chain: it reports the root as not found only after
\* tweet_details, search and the raw request were all tried for it and gave
\* nothing, as extract_twitter_content does.
C13_ThreadRootUsesChain ==
    (ThreadDone /\ result.d.original_tweet = NoneV) =>
        /\ Len(RootLog) = 3
        /\ \A i \in 1..3 : RootLog[i].api = StrategyOrder[i] /\ GaveNothing(RootLog[i])

\* the longest list api.tweet_replies returns
LongestReplyList == CHOOSE n \in {Len(l) : l \in ReplyLists} : \A l \in ReplyLists : Len(l) <= n

\* the number of _get_replies_recursive calls that fetch, at most, under a
\* call at a depth md levels above the bound
RECURSIVE FetchBound(_)
FetchBound(md) == IF md = 0 THEN 0 ELSE 1 + LongestReplyList * FetchBound(md - 1)

\* C14: get_complete_thread terminates, cycles of identifiers included: a
\* call issues at most as many reply fetches as a tree of depth max_depth
\* has inner nodes, every suspended frame is above the depth bound, and every
\* call that was started returns once its fetches are answered.
C14_ThreadTerminates ==
    /\ [](Len(ReplyLog) <= FetchBound(max_depth) /\ Len(stack) <= max_depth)
    /\ (pc = "thread_check_accounts") ~> ThreadDone

\* C14 witness: a call returned after it fetched the replies of a reply
\* that carries the identifier of the root
C14_Witness ==
    /\ ThreadDone
    /\ result.d.original_tweet # NoneV
    /\ result.d.original_tweet.d.id = PyInt(111)
    /\ \E i \in 2..Len(ReplyLog) : ReplyLog[i].arg = PyInt(111)

\* C15: a successful result of extract_twitter_content carries, as
\* metadata.tweet_id, the non-empty string of digits parsed from the URL.
C15_SuccessHasIdentifier ==
    (ExtractDone /\ Succeeded) =>
        /\ "metadata" \in DOMAIN result.d
        /\ result.d.metadata.d.tweet_id.t = "str"
        /\ result.d.metadata.d.tweet_id.s # <<>>
        /\ \A i \in 1..Len(result.d.metadata.d.tweet_id.s) :
               result.d.metadata.d.tweet_id.s[i] \in DigitSegs
        /\ result.d.metadata.d.tweet_id = extract_twitter_id_from_url(url)

\* C15 witness: a successful result for the URL www.twitter.com/i/status/222
C15_Witness ==
    /\ ExtractDone
    /\ Succeeded
    /\ url.netloc = "www.twitter.com"
    /\ result.d.metadata.d.tweet_id = PyStr(<<"222">>)

\* the logged fetch e delivered the post "hello world" of alice in the shape
\* of its strategy: the Tweet object TweetFull, or a raw body holding
\* EntryTweet
DeliveredThePost(e) ==
    \/ e.api = "tweet_details" /\ e.outcome = [kind |-> "value", v |-> TweetFull]
    \/ e.api = "search" /\ e.outcome = [kind |-> "yield", v |-> TweetFull]
    \/ /\ e.api = "tweet_details_raw"
       /\ e.outcome.kind = "response"
       /\ e.outcome.status_code = HttpOk
       /\ e.outcome.json_ok
       /\ e.outcome.body \in {RawWellFormed, RawCursorFirst}

\* the fields of the post, as the Tweet object shape normalizes to
ThePostFields(tid) == _extract_from_tweet_object(TweetFull, tid).d.metadata

\* C16 (as claimed): whichever strategy delivered the post, the successful
\* result carries the same fields: identifier, author, date and the four
\* metrics in metadata, and the same formatted text.
C16_SameFieldsFromEveryShape ==
    (ExtractDone /\ ChainLog # <<>> /\ DeliveredThePost(ChainLog[Len(ChainLog)])) =>
        /\ Succeeded
        /\ result.d.metadata = ThePostFields(tweet_id)
        /\ result.d.extracted_content =
               _extract_from_tweet_object(TweetFull, tweet_id).d.extracted_content

C18_ExactlyOneVariant ==
    ExtractDone =>
        /\ result.t = "dict"
        /\ "success" \in DOMAIN result.d
        /\ \/ /\ result.d.success = PyBool(TRUE)
              /\ "metadata" \in DOMAIN result.d
              /\ result.d.metadata.t = "dict"
              /\ DOMAIN result.d \cap {"error", "diagnosis", "suggestions"} = {}
           \/ /\ result.d.success = PyBool(FALSE)
              /\ "error" \in DOMAIN result.d
              /\ Truthy(result.d.error)
              /\ DOMAIN result.d \cap {"metadata", "word_count"} = {}

\* C18 witness: a fetch returned data its parser extracted nothing from,
\* and the call returned a failure
C18_Witness ==
    /\ ExtractDone
    /\ Failed
    /\ method_used # NoneV
    /\ "error" \in DOMAIN result.d

\* the names the code gives the strategies, in priority order
MethodNames == <<"tweet_details", "search", "raw_graphql">>

GenericSuggestions ==
    { W(<<"Try", "testing", "with", "a", "different", "tweet", "ID", "to", "verify",
          "the", "system", "works">>),
      W(<<"Check", "if", "the", "tweet", "URL", "is", "still", "accessible", "in", "a",
          "browser">>) }

\* C20 (as claimed): every diagnosis _diagnose_tweet_accessibility returned
\* holds the two generic suggestions, whatever the probes' outcomes were.
C20_GenericSuggestionsAlways ==
    (ExtractDone /\ HasDiagnosis) =>
        GenericSuggestions \subseteq {Suggestions[i] : i \in 1..Len(Suggestions)}

\* C21: whenever the diagnosis ran inside extract_twitter_content the call
\* returns the failure "Could not find tweet" with that diagnosis attached,
\* also when a probe succeeded and the diagnosis says accessible = True; and
\* the chain's verdict (no data from any strategy) is not revised.
C21_DiagnosisKeepsFailure ==
    (ExtractDone /\ DiagLog # <<>>) =>
        /\ Failed
        /\ HasDiagnosis
        /\ result.d.diagnosis = diagnosis
        /\ result.d.error = W(<<"Could", "not", "find", "tweet", "with", "ID:">> \o StrOf(tweet_id))
        /\ ~Truthy(tweet_data)
        /\ method_used = NoneV

\* C21 witness: probe 2 of the diagnosis found the tweet, the diagnosis says
\* accessible = True and the call returned a failure
C21_Witness ==
    /\ ExtractDone
    /\ Failed
    /\ HasDiagnosis
    /\ result.d.diagnosis.d.accessible = PyBool(TRUE)
    /\ Len(DiagLog) = 2
    /\ DiagLog[2].outcome = [kind |-> "yield", v |-> TweetFull]

\* the locals of the coroutine who, running or suspended
CallOf(who) == IF other.who = who THEN other ELSE Suspended(who)

\* what lines 44-49 return for the thread th when the call runs alone and
\* the client gives the answers log[k], log[k + 1], ... to its reply fetches;
\* r is the run of _get_replies_recursive up to its next fetch
RECURSIVE AloneReplies(_, _, _, _, _)
AloneReplies(th, r, md, log, k) ==
    IF r.returned
    THEN Dict([th.d EXCEPT !.replies = List(r.value),
                           !.total_tweets = PyInt(TotalTweets(r.value))])
    ELSE LET o == log[k].outcome IN
         CHOOSE x \in
             { AloneReplies(th, rr, md, log, k + 1) :
                   rr \in { IF o.kind = "raise"
                            THEN Deliver(Pop(r.stack), <<>>, md)
                            ELSE RunLoop(SetTop(r.stack, [Top(r.stack) EXCEPT !.replies = o.v.l,
                                                                               !.i = 1]), md) } }
             : TRUE

\* what get_complete_thread(id, md) returns when it runs alone and the
\* client gives the answers of log, in order
AloneResult(id, md, log) ==
    LET o == log[1].outcome IN
    IF o.kind = "raise" THEN ThreadExcept(NewThread(md), o.msg)
    ELSE IF ~Truthy(o.v)
    THEN WithError(NewThread(md), <<"Could", "not", "find", "original", "tweet:">> \o StrOf(id))
    ELSE IF _format_tweet(o.v) = Raised THEN ThreadExcept(NewThread(md), <<"AttributeError">>)
    ELSE AloneReplies(Dict([NewThread(md).d EXCEPT !.original_tweet = _format_tweet(o.v)]),
                      Enter(<<>>, id, 0, md), md, log, 2)

\* C22: of two get_complete_thread calls interleaved at their awaits, each
\* returns the thread it would return alone for the answers it got; a step of
\* one call leaves the locals of the other untouched, and a switch of
\* coroutines only exchanges which one runs.
C22_ConcurrentCallsIndependent ==
    /\ [](\A who \in {1, 2} :
              CallOf(who).pc = "thread_done" =>
                  /\ CallOf(who).result =
                         AloneResult(CallOf(who).tweet_id, CallOf(who).max_depth,
                                     CallOf(who).fetches)
                  /\ CallOf(who).thread = CallOf(who).result)
    /\ [][IF other'.who # other.who
          THEN /\ other' = Suspended(other'.who)
               /\ other = [who |-> other.who, pc |-> pc', tweet_id |-> tweet_id',
                           max_depth |-> max_depth', thread |-> thread', stack |-> stack',
                           fetches |-> fetches', result |-> result']
          ELSE other' = other]_vars

\* C22 witness: both calls are suspended in a reply fetch at the same time,
\* for different roots and depths, each with its root in its own thread
C22_Witness ==
    /\ pc = "thread_replies"
    /\ other.pc = "thread_replies"
    /\ tweet_id # other.tweet_id
    /\ max_depth # other.max_depth
    /\ Len(fetches) >= 2
    /\ Len(other.fetches) >= 2
    /\ thread.d.original_tweet # NoneV
    /\ other.thread.d.original_tweet # NoneV
    /\ thread.d.max_depth = PyInt(max_depth)
    /\ other.thread.d.max_depth = PyInt(other.max_depth)

\* C23: a probe of the diagnosis is issued only after the three fetches of
\* the chain were issued and each was answered with no data: in the log of a
\* call the probes come after the three chain fetches, and a call one of
\* whose chain fetches returned data has issued no probe.
C23_ProbesOnlyAfterChainFailed ==
    /\ DiagLog # <<>> =>
           /\ Len(ChainLog) = 3
           /\ \A i \in 1..3 : fetches[i].phase = "chain" /\ GaveNothing(fetches[i])
           /\ \A i \in 4..Len(fetches) : fetches[i].phase = "diagnosis"
    /\ (\E i \in 1..Len(ChainLog) : GaveData(ChainLog[i])) =>
           /\ DiagLog = <<>>
           /\ diagnosis = NoneV

\* C23 witness: the first probe is pending after three chain fetches that
\* gave None, no result and HTTP 404
C23_Witness ==
    /\ pc = "diag_tweet_details"
    /\ Len(fetches) = 4
    /\ fetches[4].outcome = Pending
    /\ fetches[3].outcome.kind = "response"
    /\ fetches[3].outcome.status_code = 404

\* how many fetches of the log are calls of api
TimesIssued(log, api) == Cardinality({i \in 1..Len(log) : log[i].api = api})

\* C24: in one extract_twitter_content call the chain issues each of
\* tweet_details, search and the raw request at most once and the diagnosis
\* issues each at most once: no fetch is repeated after an exception or an
\* empty answer, and each is issued at most twice in the call.
C24_NoRetry ==
    pc \in {"tweet_details", "search", "raw", "diag_tweet_details", "diag_search",
            "diag_raw", "done"} =>
        \A i \in 1..3 :
            /\ TimesIssued(ChainLog, StrategyOrder[i]) <= 1
            /\ TimesIssued(DiagLog, StrategyOrder[i]) <= 1
            /\ TimesIssued(fetches, StrategyOrder[i]) <= 2
            /\ Len(fetches) <= 6

\* C24 witness: all three chain fetches and all three probes raised, and
\* the call returned with six fetches in its log
C24_Witness ==
    /\ ExtractDone
    /\ Len(fetches) = 6
    /\ \A i \in 1..6 : fetches[i].outcome.kind = "raise"

\* the canned suggestions of lines 197-202, each with the text it is for
CannedSuggestions ==
    { [needle |-> <<"deleted">>,
       advice |-> W(<<"Tweet", "may", "have", "been", "deleted", "by", "the", "author">>)],
      [needle |-> <<"private">>,
       advice |-> W(<<"Tweet", "may", "be", "from", "a", "private", "account">>)],
      [needle |-> <<"rate", "limit">>,
       advice |-> W(<<"Rate", "limit", "reached", "-", "try", "again", "later">>)] }

\* a reason of the returned diagnosis contains needle, whatever the case
ReasonsMention(needle) ==
    \E i \in 1..Len(Reasons) : Contains(Lower(Reasons[i].s), needle)

\* C25: in a diagnosis whose three probes ran, each canned suggestion is
\* present, once, exactly when a reason contains its text, compared without
\* regard to case, whether the text comes from the code's own reason or
\* from the message of a probe's exception.
C25_CannedSuggestionsMatchReasons ==
    (ExtractDone /\ HasDiagnosis /\ Len(DiagLog) = 3) =>
        \A c \in CannedSuggestions :
            Cardinality({i \in 1..Len(Suggestions) : Suggestions[i] = c.advice})
                = (IF ReasonsMention(c.needle) THEN 1 ELSE 0)

\* C25 witness: probe 1 raised "Rate limit exceeded", probe 3 raised "Account
\* is Private": the rate limit and the private account advice are given,
\* the deletion advice is not
C25_Witness ==
    /\ ExtractDone
    /\ HasDiagnosis
    /\ Len(DiagLog) = 3
    /\ DiagLog[1].outcome = [kind |-> "raise", msg |-> <<"Rate", "limit", "exceeded">>]
    /\ DiagLog[3].outcome = [kind |-> "raise", msg |-> <<"Account", "is", "Private">>]
    /\ ~ReasonsMention(<<"deleted">>)
    /\ \E i \in 1..Len(Suggestions) :
           Suggestions[i] = W(<<"Rate", "limit", "reached", "-", "try", "again", "later">>)
    /\ \E i \in 1..Len(Suggestions) :
           Suggestions[i] = W(<<"Tweet", "may", "be", "from", "a", "private", "account">>)

\* the reason of line 184
NotParseable == W(<<"Raw", "request", "succeeded", "but", "tweet", "not", "parseable">>)

\* C26 (as claimed): when probe 3 got a response from which
\* _extract_from_raw_response extracts a post, the diagnosis does not give
\* the reason "Raw request succeeded but tweet not parseable".
C26_NotParseableOnlyIfUnparseable ==
    (/\ ExtractDone
     /\ HasDiagnosis
     /\ Len(DiagLog) = 3
     /\ DiagLog[3].outcome.kind = "response"
     /\ DiagLog[3].outcome.status_code = HttpOk
     /\ DiagLog[3].outcome.json_ok
     /\ Truthy(_extract_from_raw_response(DiagLog[3].outcome.body, tweet_id))) =>
        \A i \in 1..Len(Reasons) : Reasons[i] # NotParseable

(***************************************************************************)
(* The raw parser applied alone                                            *)
(***************************************************************************)
ParsedRaw == pc = "parsed" /\ method_used = PyStr(<<"raw_graphql">>)

\* the instruction list of a raw body, empty when the body has none
InstructionsOf(body) ==
    Get(Get(Get(body, "data", EmptyDict), "tweet_detail", EmptyDict),
        "instructions", EmptyList).l

\* the entries of the TimelineAddEntries instructions, in scanning order
RECURSIVE EntriesInOrder(_)
EntriesInOrder(instructions) ==
    IF instructions = <<>> THEN <<>>
    ELSE LET first == Head(instructions)
         IN  (IF Get(first, "type", NoneV) = PyStr(<<"TimelineAddEntries">>)
              THEN Get(first, "entries", EmptyList).l ELSE <<>>)
             \o EntriesInOrder(Tail(instructions))

\* the tweet result of an entry, empty when a key on the way is absent
TweetResultOf(entry) ==
    Get(Get(Get(Get(entry, "content", EmptyDict), "itemContent", EmptyDict),
            "tweet_results", EmptyDict), "result", EmptyDict)

\* an entry of type Tweet with a non-empty tweet result
IsPostEntry(entry) ==
    /\ Get(Get(entry, "content", EmptyDict), "entryType", NoneV) = PyStr(<<"Tweet">>)
    /\ TweetResultOf(entry) # EmptyDict

\* the post entries of the body that was parsed, in scanning order
PostEntries == SelectSeq(EntriesInOrder(InstructionsOf(tweet_data)), IsPostEntry)

\* what the raw parser makes of a body that holds this entry and nothing else
ParsedAlone(entry) == _extract_from_raw_response(RawBody(<<AddEntries(<<entry>>)>>), tweet_id)

\* C27: the raw parser returns the fields of the first entry, in the order of
\* instructions and of entries inside each TimelineAddEntries instruction,
\* that is of type Tweet and has a non-empty tweet result: the result is the
\* one that entry gives alone, whatever follows it, and there is no result
\* when there is no such entry.
C27_FirstMatchWins ==
    ParsedRaw =>
        IF PostEntries = <<>>
        THEN result = NoneV
        ELSE /\ result = ParsedAlone(PostEntries[1])
             /\ Succeeded

\* C27 witness: a body of two instructions was parsed whose first post entry
\* comes after an entry that is no post and before a different post entry of
\* the next instruction, and the first one's fields were returned.
C27_Witness ==
    /\ ParsedRaw
    /\ Len(InstructionsOf(tweet_data)) > 1
    /\ Len(PostEntries) > 1
    /\ ParsedAlone(PostEntries[1]) # ParsedAlone(PostEntries[Len(PostEntries)])
    /\ ~IsPostEntry(EntriesInOrder(InstructionsOf(tweet_data))[1])
    /\ result = ParsedAlone(PostEntries[1])

\* the keys on the way from an entry's tweet result to the user's legacy
\* fields are all there
HasWholePath(entry) ==
    LET tweet_content == TweetResultOf(entry)
        user_result == Get(Get(Get(tweet_content, "core", EmptyDict),
                               "user_results", EmptyDict), "result", EmptyDict)
    IN  /\ IsPostEntry(entry)
        /\ "legacy" \in DOMAIN tweet_content.d
        /\ "core" \in DOMAIN tweet_content.d
        /\ "legacy" \in DOMAIN user_result.d

\* the entries of the parsed body, in scanning order, that are of type Tweet
\* and have the whole path
WholeEntries == SelectSeq(EntriesInOrder(InstructionsOf(tweet_data)), HasWholePath)

\* C28: an entry that lacks a key on the path tweet result -> legacy fields ->
\* core/user result -> user legacy fields is no match for that entry only:
\* the first entry of the body that has the whole path is the one extracted,
\* whatever entries lacking a key come before it.
C28_EntryLackingKeyIsSkipped ==
    (ParsedRaw /\ WholeEntries # <<>>) => result = ParsedAlone(WholeEntries[1])

ParsedObject == pc = "parsed" /\ method_used = PyStr(<<"tweet_details">>)

\* the metadata of the result
Meta == result.d.metadata.d

\* the result carries a text: a string with its word count
HasText == result.d.extracted_content.t = "str" /\ result.d.word_count.t = "int"

\* the legacy fields and the user's legacy fields of the first post entry of
\* the parsed body, empty when the entry has none
FirstLegacy == Get(TweetResultOf(PostEntries[1]), "legacy", EmptyDict)
FirstUserLegacy ==
    Get(Get(Get(Get(TweetResultOf(PostEntries[1]), "core", EmptyDict),
                "user_results", EmptyDict), "result", EmptyDict), "legacy", EmptyDict)

\* the Tweet object carries no author: it has no user, or a user that is a
\* mapping without a username
ObjectLacksAuthor ==
    \/ ~HasAttr(tweet_data, "user")
    \/ tweet_data.a.user.t = "dict" /\ "username" \notin DOMAIN tweet_data.a.user.d

RootReplies == ReplyLog[1].outcome.v.l

\* C30: when formatting one reply raises during thread reconstruction, only
\* that reply is lost: every other reply of the same parent, those formatted
\* before it included, is in the parent's list of children.  For the root:
\* each reply of the list fetched for it that _format_tweet accepts is a
\* child of the root in the returned thread.
C30_FormatFailureIsolated ==
    (/\ ThreadDone
     /\ ReplyLog # <<>>
     /\ ReplyLog[1].outcome.kind = "value") =>
        \A i \in 1..Len(RootReplies) :
            _format_tweet(RootReplies[i]) # Raised =>
                \E n \in 1..Len(result.d.replies.l) :
                    result.d.replies.l[n].d.id = RootReplies[i].a.id

(***************************************************************************)
(* The children of a node and the upstream reply list                      *)
(***************************************************************************)
\* the identifiers of a list of Tweet objects, and of a list of nodes
TweetIds(tweets) == [i \in 1..Len(tweets) |-> tweets[i].a.id]
NodeIds(nodes) == [i \in 1..Len(nodes) |-> nodes[i].d.id]

\* every reply of the list can be formatted
AllFormat(tweets) == \A i \in 1..Len(tweets) : _format_tweet(tweets[i]) # Raised

\* C31: the child list of a node whose reply fetch succeeded is the upstream
\* reply list, element for element and in upstream order, a reply with the
\* identifier of an ancestor included.  For the root, whose fetch is the
\* first one, and for its first reply, whose fetch is the second one when
\* max_depth allows it: the children carry the identifiers of the fetched
\* list in the same order.
C31_ChildrenAreUpstreamList ==
    (/\ ThreadDone
     /\ ReplyLog # <<>>
     /\ ReplyLog[1].outcome.kind = "value") =>
        /\ NodeIds(result.d.replies.l) = TweetIds(RootReplies)
        /\ (/\ max_depth > 1
            /\ RootReplies # <<>>
            /\ ReplyLog[2].outcome.kind = "value") =>
               NodeIds(result.d.replies.l[1].d.replies.l) = TweetIds(ReplyLog[2].outcome.v.l)

\* C32: a result of get_complete_thread has its top-level error set exactly
\* when it has no root: with a root the error is None, also when reply
\* fetches below the root raised, and without a root the error is a
\* non-empty string.
C32_ErrorIffNoRoot ==
    ThreadDone =>
        /\ result.d.original_tweet # NoneV => result.d.error = NoneV
        /\ result.d.original_tweet = NoneV =>
               (result.d.error.t = "str" /\ result.d.error.s # <<>>)

\* C32 witness: a thread was returned with its root and without an error
\* although a reply fetch of the call raised.
C32_Witness ==
    /\ ThreadDone
    /\ result.d.original_tweet # NoneV
    /\ result.d.error = NoneV
    /\ \E k \in 1..Len(ReplyLog) : ReplyLog[k].outcome.kind = "raise"

(***************************************************************************)
(* The fields of a node                                                    *)
(***************************************************************************)
\* the keys of a node that hold an integer count (identifiers and the
\* reply marker aside)
CountKeys(node) ==
    {k \in DOMAIN node.d \ {"id", "author_id", "is_reply"} : node.d[k].t = "int"}

\* a node carries its four counts and, apart from them, its list of children
CarriesMetrics(node) ==
    /\ Cardinality(CountKeys(node)) = 4
    /\ \E k \in DOMAIN node.d \ CountKeys(node) : node.d[k].t = "list"

RECURSIVE AllCarryMetrics(_)
AllCarryMetrics(nodes) ==
    \A i \in 1..Len(nodes) :
        CarriesMetrics(nodes[i]) /\ AllCarryMetrics(nodes[i].d.replies.l)

\* C33: every node of a returned thread, the root included, whose post has
\* integer counts carries the four of them (likes, retweets, reply count,
\* quotes) as integers, next to and distinct from its list of child nodes.
C33_NodesCarryFourMetrics ==
    (ThreadDone /\ result.d.original_tweet # NoneV) =>
        /\ CarriesMetrics(result.d.original_tweet)
        /\ AllCarryMetrics(result.d.replies.l)

(***************************************************************************)
(* Cancellation                                                            *)
(***************************************************************************)
\* C34: when the caller cancels a get_complete_thread call while a reply
\* fetch is outstanding, the call returns no thread (the tree built so far
\* reaches nobody) and issues no reply fetch afterwards: a cancelled fetch is
\* the last fetch of the call, and the call has ended without a result and
\* without a suspended frame.
C34_CancelDiscardsAndStops ==
    /\ \A k \in 1..Len(fetches) :
           fetches[k].outcome = Cancelled =>
               /\ k = Len(fetches)
               /\ pc = "thread_cancelled"
    /\ pc = "thread_cancelled" =>
           /\ result = NoneV
           /\ thread = NoThread
           /\ stack = <<>>

\* C34 witness: a call was cancelled in its second reply fetch or later,
\* after the root and a fetched list of replies had been formatted.
C34_Witness ==
    /\ pc = "thread_cancelled"
    /\ Len(ReplyLog) > 1
    /\ ReplyLog[1].outcome.kind = "value"
    /\ ReplyLog[Len(ReplyLog)].outcome = Cancelled

(***************************************************************************)
(* Fetches and nodes                                                       *)
(***************************************************************************)
\* the number of nodes of the forest nodes, whose roots are at depth d, that
\* are at a depth below md
RECURSIVE CountShallow(_, _, _)
CountShallow(nodes, d, md) ==
    IF nodes = <<>> \/ d >= md THEN 0
    ELSE 1 + CountShallow(Head(nodes).d.replies.l, d + 1, md)
           + CountShallow(Tail(nodes), d, md)

\* C35: a get_complete_thread call that resolved its root has issued as many
\* reply fetches as the returned tree has nodes at a depth below max_depth,
\* the root (depth 0) included: one fetch for each such node, none for the
\* nodes at depth max_depth.
C35_OneFetchPerInnerNode ==
    (ThreadDone /\ result.d.original_tweet # NoneV) =>
        Len(ReplyLog) = (IF max_depth > 0 THEN 1 ELSE 0)
                        + CountShallow(result.d.replies.l, 1, max_depth)

(***************************************************************************)
(* The diagnosis against an upstream that answers as it did before         *)
(***************************************************************************)
\* each probe of the diagnosis was answered as the chain's fetch of the same
\* method had been answered
ProbesRepeatChain ==
    /\ Len(DiagLog) <= Len(ChainLog)
    /\ \A i \in 1..Len(DiagLog) :
           /\ DiagLog[i].api = ChainLog[i].api
           /\ DiagLog[i].arg = ChainLog[i].arg
           /\ DiagLog[i].outcome = ChainLog[i].outcome

\* C36: when the upstream answers the probes as it answered the chain's
\* fetches for the same identifier, the diagnosis of a failed
\* extract_twitter_content call has accessible = False and exactly three
\* reasons, one for each probe.
C36_RepeatedDiagnosisInaccessible ==
    (ExtractDone /\ HasDiagnosis /\ ProbesRepeatChain) =>
        /\ result.d.diagnosis.d.accessible = PyBool(FALSE)
        /\ Len(Reasons) = 3
        /\ Len(DiagLog) = 3

\* C36 witness: a call failed with a diagnosis whose three probes were
\* answered as the three fetches of the chain had been, and the diagnosis
\* says inaccessible with three reasons.
C36_Witness ==
    /\ ExtractDone
    /\ HasDiagnosis
    /\ ProbesRepeatChain
    /\ Len(DiagLog) = 3
    /\ result.d.diagnosis.d.accessible = PyBool(FALSE)
    /\ Len(Reasons) = 3

(***************************************************************************)
(* The identifier of a result                                              *)
(***************************************************************************)
\* C37: the identifier of a successful result of extract_twitter_content is
\* the one parsed from the requested URL, also when the payload carries
\* another one: neither parser looks at the payload's own identifier.
C37_IdentifierIsTheRequestedOne ==
    (ExtractDone /\ Succeeded) =>
        /\ tweet_id = extract_twitter_id_from_url(url)
        /\ Meta.tweet_id = tweet_id
        /\ result.d.title.t = "str"

\* C37 witness: the post 222 was requested, the client delivered the Tweet
\* object with id 111, and the successful result carries 222.
C37_Witness ==
    /\ ExtractDone
    /\ Succeeded
    /\ tweet_data.t = "obj"
    /\ tweet_data.a.id = PyInt(111)
    /\ tweet_id = PyStr(<<"222">>)
    /\ Meta.tweet_id = PyStr(<<"222">>)

(***************************************************************************)
(* extract_tweet_with_replies: a reply stream that raises                  *)
(***************************************************************************)
RepliesDone == pc = "replies_done"

\* the answer to the reply fetch of the call, when the call issued one
StreamOutcome == fetches[Len(fetches)].outcome
StreamRaised ==
    /\ RepliesDone
    /\ fetches # <<>>
    /\ fetches[Len(fetches)].api = "tweet_replies"
    /\ StreamOutcome.kind = "raise"

\* the words that follow "Tweet ID:" in a text, from word i on
RECURSIVE IdsFrom(_, _)
IdsFrom(ws, i) ==
    IF i > Len(ws) THEN <<>>
    ELSE (IF i > 2 /\ ws[i - 2] = "Tweet" /\ ws[i - 1] = "ID:" THEN <<ws[i]>> ELSE <<>>)
         \o IdsFrom(ws, i + 1)

\* the identifiers of the replies collected, as words
CollectedIds == [i \in 1..Len(stream_replies) |-> StrOf(stream_replies[i].a.id)[1]]

NoIdentifier == url # NoneV /\ ~Truthy(extract_twitter_id_from_url(url))

\* C39: when no identifier can be parsed from the URL, extract_twitter_content
\* and extract_tweet_with_replies issue no fetch of a post, a search, a raw
\* response or replies, run no diagnosis, and return a failure.
C39_NoIdentifierNoFetch ==
    NoIdentifier =>
        /\ fetches = <<>>
        /\ diagnosis = NoneV
        /\ pc \in {"check_accounts", "done", "replies_done"}
        /\ pc \in {"done", "replies_done"} => (Failed /\ ~HasDiagnosis)

\* C39 witness: extract_tweet_with_replies, with twscrape available, has
\* returned a failure for a URL of a Twitter host without a status
\* identifier, and no fetch was issued.
C39_Witness ==
    /\ pc = "replies_done"
    /\ available
    /\ is_twitter_url(url)
    /\ NoIdentifier
    /\ Failed
    /\ fetches = <<>>

====
